---- MODULE Spec2Model ----
(***************************************************************************)
(* Model of the xMins prediction services of fpl-decision-helper:          *)
(*   ml-service/app.py      (XGBoost service, model_metadata.json schema)  *)
(*   ml-service/api.py      (calibrated service, feature_config.json)      *)
(*   python-service/app     (two-stage logistic / survival service)        *)
(*   ml-service/scripts     (feature config + training pipeline)           *)
(*                                                                         *)
(* Numbers: probabilities are percentages (0..100), minutes are integers,  *)
(* a product probability x minutes is kept in hundredths of a minute.      *)
(* Window means are kept times 840 (= lcm of 1..8), sample variances times *)
(* 840 and regression slopes times 58800, so that every value the code     *)
(* computes on windows of 1..8 integers is an exact integer here.          *)
(***************************************************************************)
EXTENDS Integers, Sequences, FiniteSets, TLC

VARIABLES
    history,      \* the appearance list a request carries, in list order
    resp,         \* outcome of the last handler / function call
    configFile,   \* data/feature_config.json
    csvCols,      \* columns of data/training_data_features.csv
    calibratedPkl,\* models/*_calibrated.pkl: the column list they were fitted on
    modelsPkl,    \* models/start_model.pkl + minutes_model.pkl: fitted column list
    metadataFile, \* models/model_metadata.json: its feature_config
    apiSvc,       \* api.py globals after startup
    appSvc,       \* app.py globals after import
    runs,         \* pipeline scripts run so far
    pyModelsDir,  \* python-service models/*.pkl: the saved model_data dicts
    stage_a,      \* python-service StartProbabilityModel singleton
    stage_b,      \* python-service MinutesGivenStartModel singleton
    tasks,        \* python-service /train requests: each coroutine's position
    loop,         \* the /train coroutine holding the event loop thread, or 0
    fits          \* train invocations so far (they number the fitted estimators)

vars == <<history, resp, configFile, csvCols, calibratedPkl, modelsPkl,
          metadataFile, apiSvc, appSvc, runs, pyModelsDir, stage_a, stage_b,
          tasks, loop, fits>>

pipeVars == <<configFile, csvCols, calibratedPkl, modelsPkl, metadataFile,
              apiSvc, appSvc, runs>>
pyVars == <<pyModelsDir, stage_a, stage_b>>
trainVars == <<tasks, loop, fits>>

----------------------------------------------------------------------------
\* Bounds of the model

\* longest appearance list a request carries
MaxLen == 6

\* pipeline scripts run in one behaviour
MaxRuns == 4

\* /train requests in one behaviour
MaxTrainRuns == 2

\* train invocations in one behaviour, the earlier run of the pickles included
MaxFits == 3

\* requests of one batch
MaxBatch == 2

\* appearances of one player in a fetched season
SeasonGames == 60

----------------------------------------------------------------------------
\* Program constants

\* minutes threshold of an "85+ start"
RoleLockMinutes == 85
\* consecutive 85+ starts that make a role lock
RoleLockRun == 3
\* history length below which a prediction is flagged sparse
SparseBelow == 5
\* ceiling of the minutes estimate in ml-service
MaxMinutes == 90
\* ceiling of the survival model's expected minutes in python-service
SurvivalCap == 95
\* half width of the uncertainty band, minutes
BandHalfWidth == 10
\* rows below which a stage refuses to train
MinTrainingSamples == 50

None == "none"

----------------------------------------------------------------------------
\* Sequence helpers

Min2(a, b) == IF a < b THEN a ELSE b
Max2(a, b) == IF a > b THEN a ELSE b

\* pandas DataFrame.tail(n)
Tail_n(s, n) == IF Len(s) <= n THEN s ELSE SubSeq(s, Len(s) - n + 1, Len(s))

\* pandas DataFrame.head(n)
Head_n(s, n) == IF Len(s) <= n THEN s ELSE SubSeq(s, 1, n)

Reverse(s) == [i \in 1..Len(s) |-> s[Len(s) + 1 - i]]

RECURSIVE SumSeq(_)
SumSeq(s) == IF s = <<>> THEN 0 ELSE Head(s) + SumSeq(Tail(s))

Minutes(s) == [i \in 1..Len(s) |-> s[i].minutes]
Started01(s) == [i \in 1..Len(s) |-> IF s[i].started THEN 1 ELSE 0]

\* sort of s by ascending keys, rows of equal key in list order: a row's
\* place is the count of the rows that go before it
SortByKeys(s, keys) ==
    LET n == Len(s)
        place == <<>> \o [i \in 1..n |->
                     Cardinality({j \in 1..n :
                         keys[j] < keys[i] \/ (keys[j] = keys[i] /\ j < i)}) + 1]
    IN [k \in 1..n |-> s[CHOOSE i \in 1..n : place[i] = k]]

\* sort_values('date')
SortByDate(s) == SortByKeys(s, [i \in 1..Len(s) |-> s[i].date])

\* sort_values('gameweek')
SortByGameweek(s) == SortByKeys(s, [i \in 1..Len(s) |-> s[i].gameweek])

----------------------------------------------------------------------------
\* Window statistics on a sequence of integers (minutes or 0/1 flags)

\* Series.mean(), times 840
MeanScaled(xs) == SumSeq(xs) * (840 \div Len(xs))

\* Series.std() (ddof = 1), as the sample variance times 840
VarScaled(xs) ==
    LET n == Len(xs)
        sq == [i \in 1..n |-> xs[i] * xs[i]]
    IN (n * SumSeq(sq) - SumSeq(xs) * SumSeq(xs)) * (840 \div (n * (n - 1)))

\* np.polyfit(arange(n), xs, 1)[0], times 58800
SlopeScaled(xs) ==
    LET n == Len(xs)
        idx == [i \in 1..n |-> i - 1]
        ixs == [i \in 1..n |-> (i - 1) * xs[i]]
        isq == [i \in 1..n |-> (i - 1) * (i - 1)]
        den == n * SumSeq(isq) - SumSeq(idx) * SumSeq(idx)
    IN (n * SumSeq(ixs) - SumSeq(idx) * SumSeq(xs)) * (58800 \div den)

----------------------------------------------------------------------------
\* Feature names

\* create_feature_list(): start_features, in order
BaseFeatures ==
    <<"pos_GK", "pos_DEF", "pos_MID", "pos_FWD",
      "avg_minutes_last_3", "start_rate_last_3", "consistency_last_3", "trend_last_3",
      "avg_minutes_last_5", "start_rate_last_5", "consistency_last_5", "trend_last_5",
      "avg_minutes_last_8", "start_rate_last_8", "consistency_last_8", "trend_last_8",
      "role_lock", "consecutive_85plus",
      "prev_gw_minutes", "prev_gw_started",
      "gameweek_norm", "month_norm",
      "is_home",
      "goals_last_5", "assists_last_5", "xG_last_5", "xA_last_5",
      "goal_involvement_last_5", "xGI_last_5",
      "days_since_last_game", "minutes_last_7_days", "games_last_2_gw",
      "team_rotation_rate",
      "price_norm", "ict_last_5", "influence_last_5", "creativity_last_5",
      "threat_last_5", "bonus_last_5",
      "goal_diff", "is_blowout",
      "is_red_card", "is_early_injury_sub",
      "opponent_strength_norm", "is_top6_opponent",
      "early_sub_rate_last_5", "full_90_rate_last_5">>

\* add_rotation_features.py main(): new_features
RotationFeatures ==
    <<"start_volatility_5gw", "rested_last_gw", "consecutive_starts",
      "minutes_std_5gw", "team_pos_rotation_rate", "surprise_starter_risk",
      "fixture_congestion">>

\* add_advanced_features.py main(): new_features
AdvancedFeatures ==
    <<"days_since_last_start", "rested_7plus_days", "played_within_3_days",
      "minutes_trend_5gw", "minutes_increasing", "minutes_decreasing",
      "yellows_last_10", "yellow_card_risk",
      "is_premium", "is_budget",
      "upcoming_3_fixture_difficulty", "easy_run_ahead",
      "position_competition_3gw", "high_competition",
      "goal_contributions_last_3", "hot_form">>

\* train_calibrated.py load_training_data(): advanced_features
DepthFeatures ==
    <<"squad_depth_position", "high_squad_depth",
      "manager_early_sub_rate", "manager_full_game_rate",
      "high_rotation_manager">>

\* StartProbabilityModel.prepare_features: feature_cols
StageAFeatureCols ==
    <<"num_healthy_starts", "weighted_avg_minutes", "last_3_avg_minutes",
      "last_5_avg_minutes", "minutes_std", "role_lock", "start_frequency",
      "congestion_flag", "intl_window_flag", "avg_days_rest", "viable_backups",
      "position_encoded">>

\* MinutesGivenStartModel.prepare_features: feature_cols
StageBFeatureCols ==
    <<"num_healthy_starts", "weighted_avg_minutes", "last_3_avg_minutes",
      "last_5_avg_minutes", "minutes_std", "role_lock",
      "congestion_flag", "intl_window_flag", "avg_days_rest", "viable_backups",
      "position_encoded">>

Range(s) == {s[i] : i \in 1..Len(s)}

\* [col for col in cols if col in names]
Available(cols, names) == SelectSeq(cols, LAMBDA c : c \in names)

\* list(dict.fromkeys(s)): first occurrences, in order
Dedupe(s) ==
    LET first == SelectSeq([i \in 1..Len(s) |-> i],
                           LAMBDA i : \A j \in 1..(i - 1) : s[j] # s[i])
    IN [k \in 1..Len(first) |-> s[first[k]]]

\* features.get(f, 0)
Get0(features, f) == IF f \in DOMAIN features THEN features[f] ELSE 0

\* [features.get(f, 0) for f in feature_names]
VectorOf(features, feature_names) ==
    [i \in 1..Len(feature_names) |-> Get0(features, feature_names[i])]

----------------------------------------------------------------------------
\* ml-service/app.py: feature engineering
\* Units: *_norm values are numerators (gameweek_norm over 1406 = 38 * 37,
\* month_norm over 132 = 12 * 11, price_norm over 110 with the price in
\* tenths), team_rotation_rate and opponent_strength_norm are percentages.

IsRoleStart(row) == row.started /\ row.minutes >= RoleLockMinutes

Bool01(b) == IF b THEN 1 ELSE 0

\* the backward scan of app.py: the trailing run of 85+ starts of df
RECURSIVE TrailingRun(_)
TrailingRun(df) ==
    IF df = <<>> THEN 0
    ELSE IF IsRoleStart(df[Len(df)])
         THEN 1 + TrailingRun(SubSeq(df, 1, Len(df) - 1))
    ELSE 0

\* key order of the dict engineer_features_from_appearances builds
AppFeatureKeys ==
    <<"avg_minutes_last_3", "start_rate_last_3", "consistency_last_3", "trend_last_3",
      "avg_minutes_last_5", "start_rate_last_5", "consistency_last_5", "trend_last_5",
      "avg_minutes_last_8", "start_rate_last_8", "consistency_last_8", "trend_last_8",
      "consecutive_85plus", "role_lock",
      "prev_gw_minutes", "prev_gw_started",
      "pos_GK", "pos_DEF", "pos_MID", "pos_FWD",
      "gameweek_norm", "month_norm",
      "is_home",
      "goals_last_5", "assists_last_5", "xG_last_5", "xA_last_5",
      "goal_involvement_last_5", "xGI_last_5",
      "days_since_last_game", "minutes_last_7_days", "games_last_2_gw",
      "team_rotation_rate",
      "price_norm", "ict_last_5", "influence_last_5", "bonus_last_5",
      "goal_diff", "is_blowout",
      "is_red_card", "is_early_injury_sub">>

\* key order of the dict get_default_features builds
AppDefaultKeys ==
    <<"avg_minutes_last_3", "start_rate_last_3", "consistency_last_3", "trend_last_3",
      "avg_minutes_last_5", "start_rate_last_5", "consistency_last_5", "trend_last_5",
      "avg_minutes_last_8", "start_rate_last_8", "consistency_last_8", "trend_last_8",
      "consecutive_85plus", "role_lock",
      "prev_gw_minutes", "prev_gw_started",
      "pos_GK", "pos_DEF", "pos_MID", "pos_FWD",
      "gameweek_norm", "month_norm",
      "is_home",
      "goals_last_5", "assists_last_5", "xG_last_5", "xA_last_5",
      "goal_involvement_last_5", "xGI_last_5",
      "days_since_last_game", "minutes_last_7_days", "games_last_2_gw",
      "team_rotation_rate",
      "price_norm", "ict_last_5", "influence_last_5", "bonus_last_5",
      "goal_diff", "is_blowout",
      "is_red_card", "is_early_injury_sub">>

get_default_features(position, price, now) ==
    [avg_minutes_last_3 |-> 0, start_rate_last_3 |-> 0,
     consistency_last_3 |-> 0, trend_last_3 |-> 0,
     avg_minutes_last_5 |-> 0, start_rate_last_5 |-> 0,
     consistency_last_5 |-> 0, trend_last_5 |-> 0,
     avg_minutes_last_8 |-> 0, start_rate_last_8 |-> 0,
     consistency_last_8 |-> 0, trend_last_8 |-> 0,
     consecutive_85plus |-> 0, role_lock |-> 0,
     prev_gw_minutes |-> 0, prev_gw_started |-> 0,
     pos_GK |-> Bool01(position = "GK"), pos_DEF |-> Bool01(position = "DEF"),
     pos_MID |-> Bool01(position = "MID"), pos_FWD |-> Bool01(position = "FWD"),
     gameweek_norm |-> 0, month_norm |-> now.month * 11,
     is_home |-> 1,
     goals_last_5 |-> 0, assists_last_5 |-> 0, xG_last_5 |-> 0, xA_last_5 |-> 0,
     goal_involvement_last_5 |-> 0, xGI_last_5 |-> 0,
     days_since_last_game |-> 7, minutes_last_7_days |-> 0, games_last_2_gw |-> 0,
     team_rotation_rate |-> 20,
     price_norm |-> price - 40,
     ict_last_5 |-> 0, influence_last_5 |-> 0, bonus_last_5 |-> 0,
     goal_diff |-> 0, is_blowout |-> 0,
     is_red_card |-> 0, is_early_injury_sub |-> 0]

\* np.mean / std / polyfit of one window, with the guards of the code
WindowAvg(recent) == IF Len(recent) > 0 THEN MeanScaled(Minutes(recent)) ELSE 0
WindowStartRate(recent) == IF Len(recent) > 0 THEN MeanScaled(Started01(recent)) ELSE 0
WindowConsistency(recent) == IF Len(recent) > 1 THEN VarScaled(Minutes(recent)) ELSE 0
WindowTrend(recent) == IF Len(recent) >= 2 THEN SlopeScaled(Minutes(recent)) ELSE 0

\* minutes of the rows of df dated within the 7 days before now
RECURSIVE MinutesSince(_, _)
MinutesSince(df, day) ==
    IF df = <<>> THEN 0
    ELSE (IF Head(df).date >= day THEN Head(df).minutes ELSE 0)
         + MinutesSince(Tail(df), day)

engineer_features_from_appearances(appearances, position, is_home, gameweek, price, now) ==
    IF appearances = <<>> THEN get_default_features(position, price, now)
    ELSE
    LET df == SortByDate(appearances)
        consecutive == TrailingRun(df)
        prev_gw == df[Len(df)]
    IN
    [avg_minutes_last_3 |-> WindowAvg(Tail_n(df, 3)),
     start_rate_last_3 |-> WindowStartRate(Tail_n(df, 3)),
     consistency_last_3 |-> WindowConsistency(Tail_n(df, 3)),
     trend_last_3 |-> WindowTrend(Tail_n(df, 3)),
     avg_minutes_last_5 |-> WindowAvg(Tail_n(df, 5)),
     start_rate_last_5 |-> WindowStartRate(Tail_n(df, 5)),
     consistency_last_5 |-> WindowConsistency(Tail_n(df, 5)),
     trend_last_5 |-> WindowTrend(Tail_n(df, 5)),
     avg_minutes_last_8 |-> WindowAvg(Tail_n(df, 8)),
     start_rate_last_8 |-> WindowStartRate(Tail_n(df, 8)),
     consistency_last_8 |-> WindowConsistency(Tail_n(df, 8)),
     trend_last_8 |-> WindowTrend(Tail_n(df, 8)),
     consecutive_85plus |-> consecutive,
     role_lock |-> Bool01(consecutive >= RoleLockRun),
     prev_gw_minutes |-> prev_gw.minutes,
     prev_gw_started |-> Bool01(prev_gw.started),
     pos_GK |-> Bool01(position = "GK"), pos_DEF |-> Bool01(position = "DEF"),
     pos_MID |-> Bool01(position = "MID"), pos_FWD |-> Bool01(position = "FWD"),
     gameweek_norm |-> gameweek * 37, month_norm |-> now.month * 11,
     is_home |-> Bool01(is_home),
     goals_last_5 |-> 0, assists_last_5 |-> 0, xG_last_5 |-> 0, xA_last_5 |-> 0,
     goal_involvement_last_5 |-> 0, xGI_last_5 |-> 0,
     days_since_last_game |-> Max2(0, now.day - prev_gw.date),
     minutes_last_7_days |-> MinutesSince(df, now.day - 7),
     games_last_2_gw |-> Len(Tail_n(df, 2)),
     team_rotation_rate |-> 20,
     price_norm |-> price - 40,
     ict_last_5 |-> 0, influence_last_5 |-> 0, bonus_last_5 |-> 0,
     goal_diff |-> 0, is_blowout |-> 0,
     is_red_card |-> Bool01(prev_gw.redCard),
     is_early_injury_sub |-> Bool01(prev_gw.injExit)]

----------------------------------------------------------------------------
\* ml-service/api.py: feature engineering

\* the forward loop of api.py over the last 5 rows: count, reset on a break
RECURSIVE RunWithReset(_)
RunWithReset(rows) ==
    IF rows = <<>> THEN 0
    ELSE IF IsRoleStart(rows[Len(rows)])
         THEN RunWithReset(SubSeq(rows, 1, Len(rows) - 1)) + 1
    ELSE 0

\* all_features of engineer_features, for a request with >= 1 appearance
ApiAllFeatures(request, now) ==
    LET appearances_df == SortByGameweek(request.appearances)
        last_3 == Tail_n(appearances_df, 3)
        last_5 == Tail_n(appearances_df, 5)
        last_8 == Tail_n(appearances_df, 8)
        consecutive_85plus == RunWithReset(Tail_n(appearances_df, 5))
        last_appearance == appearances_df[Len(appearances_df)]
        is85 == [i \in 1..Len(last_5) |-> Bool01(last_5[i].minutes >= 85)]
    IN
    [pos_GK |-> Bool01(request.position = "GK"),
     pos_DEF |-> Bool01(request.position = "DEF"),
     pos_MID |-> Bool01(request.position = "MID"),
     pos_FWD |-> Bool01(request.position = "FWD"),
     avg_minutes_last_3 |-> WindowAvg(last_3),
     start_rate_last_3 |-> WindowStartRate(last_3),
     consistency_last_3 |-> WindowConsistency(last_3),
     trend_last_3 |-> WindowTrend(last_3),
     avg_minutes_last_5 |-> WindowAvg(last_5),
     start_rate_last_5 |-> WindowStartRate(last_5),
     consistency_last_5 |-> WindowConsistency(last_5),
     trend_last_5 |-> WindowTrend(last_5),
     avg_minutes_last_8 |-> WindowAvg(last_8),
     start_rate_last_8 |-> WindowStartRate(last_8),
     consistency_last_8 |-> WindowConsistency(last_8),
     trend_last_8 |-> WindowTrend(last_8),
     role_lock |-> Bool01(consecutive_85plus >= RoleLockRun),
     consecutive_85plus |-> consecutive_85plus,
     prev_gw_minutes |-> last_appearance.minutes,
     prev_gw_started |-> Bool01(last_appearance.started),
     gameweek_norm |-> (request.gameweek - 1) * 38,
     month_norm |-> (now.month - 1) * 12,
     is_home |-> Bool01(request.isHome),
     goals_last_5 |-> 0, assists_last_5 |-> 0, xG_last_5 |-> 0, xA_last_5 |-> 0,
     goal_involvement_last_5 |-> 0, xGI_last_5 |-> 0,
     days_since_last_game |-> 7,
     minutes_last_7_days |-> last_appearance.minutes,
     games_last_2_gw |-> Min2(Len(appearances_df), 2),
     team_rotation_rate |-> 30,
     price_norm |-> request.price - 40,
     ict_last_5 |-> 0, influence_last_5 |-> 0, creativity_last_5 |-> 0,
     threat_last_5 |-> 0, bonus_last_5 |-> 0,
     goal_diff |-> 0, is_blowout |-> 0,
     is_red_card |-> Bool01(last_appearance.redCard),
     is_early_injury_sub |-> Bool01(last_appearance.injExit),
     opponent_strength |-> 3, opponent_strength_norm |-> 50, is_top6_opponent |-> 0,
     early_sub_rate_last_5 |-> 0,
     full_90_rate_last_5 |-> IF Len(last_5) > 0 THEN MeanScaled(is85) ELSE 0]

\* engineer_features: the one-row DataFrame (columns, values), or the
\* HTTPException(400) it raises on an empty appearance list
engineer_features(request, feature_names, now) ==
    IF Len(request.appearances) = 0
    THEN [raised |-> "HTTPException400"]
    ELSE [raised |-> None,
          columns |-> feature_names,
          values |-> VectorOf(ApiAllFeatures(request, now), feature_names)]

----------------------------------------------------------------------------
\* python-service/app/models/features.py

\* float('nan') of a one-sample Series.std()
NaN == -1

\* sort_values("date", ascending=False)
SortByDateDesc(s) == SortByKeys(s, [i \in 1..Len(s) |-> 0 - s[i].date])

extract_healthy_starts(appearances, exclude_injury, exclude_red_card, recency_window) ==
    LET started == SelectSeq(appearances, LAMBDA r : r.started)
        noInj == IF exclude_injury
                 THEN SelectSeq(started, LAMBDA r : ~r.injExit) ELSE started
        noRed == IF exclude_red_card
                 THEN SelectSeq(noInj, LAMBDA r : ~r.redCard) ELSE noInj
        df == SortByDateDesc(noRed)
    IN IF recency_window > 0 THEN Head_n(df, recency_window) ELSE df

detect_role_lock(healthy_starts, threshold, minutes_threshold) ==
    IF Len(healthy_starts) < threshold THEN FALSE
    ELSE \A i \in 1..threshold : healthy_starts[i].minutes >= minutes_threshold

\* 4^i * 5^(n-1-i): the weight 0.8^i over the common denominator 5^(n-1)
RECURSIVE Pow(_, _)
Pow(b, e) == IF e = 0 THEN 1 ELSE b * Pow(b, e - 1)

\* (minutes * calculate_recency_weights(n)).sum(), in tenths, truncated
WeightedMinutes(ms) ==
    LET n == Len(ms)
        w == [i \in 1..n |-> Pow(4, i - 1) * Pow(5, n - i)]
        num == [i \in 1..n |-> ms[i] * w[i]]
    IN (SumSeq(num) * 10) \div SumSeq(w)

\* default priors by position of calculate_team_position_prior
\* (start_prob in percent)
DefaultPrior(position) ==
    CASE position = "GK" -> [start_prob |-> 90, avg_minutes |-> 88]
      [] position = "DEF" -> [start_prob |-> 70, avg_minutes |-> 80]
      [] position = "FWD" -> [start_prob |-> 60, avg_minutes |-> 70]
      [] OTHER -> [start_prob |-> 60, avg_minutes |-> 75]

calculate_team_position_prior(team_appearances, position) ==
    IF Len(team_appearances) = 0 THEN DefaultPrior(position)
    ELSE LET starters == SelectSeq(team_appearances, LAMBDA r : r.started)
         IN [start_prob |-> (Len(starters) * 100) \div Len(team_appearances),
             avg_minutes |-> IF Len(starters) > 0
                             THEN SumSeq(Minutes(starters)) \div Len(starters)
                             ELSE 70]

PositionEncoded(position) ==
    CASE position = "GK" -> 0
      [] position = "DEF" -> 1
      [] position = "MID" -> 2
      [] position = "FWD" -> 3
      [] OTHER -> 2

\* key order of the dict on the prior path / on the data path
PyPriorKeys ==
    <<"num_healthy_starts", "has_data", "prior_start_prob", "prior_avg_minutes",
      "use_prior">>

PyDataKeys ==
    <<"num_healthy_starts", "has_data", "use_prior", "weighted_avg_minutes",
      "last_3_avg_minutes", "last_5_avg_minutes", "minutes_std", "role_lock",
      "start_frequency", "congestion_flag", "intl_window_flag", "avg_days_rest",
      "viable_backups", "position_encoded">>

\* team_appearances: [given |-> FALSE] for None, else [given, rows]
build_features_for_prediction(player_appearances, player_info, team_appearances, recency_window) ==
    LET healthy_starts ==
            extract_healthy_starts(player_appearances, TRUE, TRUE, recency_window)
        all_recent == Head_n(SortByDateDesc(player_appearances), recency_window)
    IN
    IF Len(healthy_starts) = 0
    THEN LET prior == IF team_appearances.given
                      THEN calculate_team_position_prior(team_appearances.rows,
                                                         player_info.position)
                      ELSE [start_prob |-> 50, avg_minutes |-> 70]
         IN [num_healthy_starts |-> 0, has_data |-> 0,
             prior_start_prob |-> prior.start_prob,
             prior_avg_minutes |-> prior.avg_minutes,
             use_prior |-> 1]
    ELSE
        [num_healthy_starts |-> Len(healthy_starts), has_data |-> 1,
         use_prior |-> 0,
         weighted_avg_minutes |-> WeightedMinutes(Minutes(healthy_starts)),
         last_3_avg_minutes |-> MeanScaled(Minutes(Head_n(healthy_starts, 3))),
         last_5_avg_minutes |-> MeanScaled(Minutes(Head_n(healthy_starts, 5))),
         minutes_std |-> IF Len(healthy_starts) > 1
                         THEN VarScaled(Minutes(healthy_starts)) ELSE NaN,
         role_lock |-> Bool01(detect_role_lock(healthy_starts, 3, 85)),
         start_frequency |-> IF Len(all_recent) > 0
                             THEN Len(healthy_starts) * (840 \div Len(all_recent))
                             ELSE 0,
         congestion_flag |-> 0, intl_window_flag |-> 0, avg_days_rest |-> 7,
         viable_backups |-> 2,
         position_encoded |-> PositionEncoded(player_info.position)]

----------------------------------------------------------------------------
\* Inputs

\* the appearances an ingestion run can record: a full start, a start
\* substituted at 60, an unused substitute, a start sent off at 23
AppearanceKinds ==
    { [started |-> TRUE, minutes |-> 90, redCard |-> FALSE, injExit |-> FALSE],
      [started |-> TRUE, minutes |-> 60, redCard |-> FALSE, injExit |-> FALSE],
      [started |-> FALSE, minutes |-> 0, redCard |-> FALSE, injExit |-> FALSE],
      [started |-> TRUE, minutes |-> 23, redCard |-> TRUE, injExit |-> FALSE] }

\* one match a week: the n-th appearance is gameweek n, played on day 7n
MakeAppearance(kind, n) ==
    [gameweek |-> n, date |-> 7 * n, started |-> kind.started,
     minutes |-> kind.minutes, redCard |-> kind.redCard, injExit |-> kind.injExit]

\* target gameweeks a request can name
TargetGameweeks == {SparseBelow, MaxLen + 1}

\* wall clock of the service while the requests are served
Now == [day |-> 7 * MaxLen + 3, month |-> 11]

\* P(start) a fitted classifier can return, percent
StartProbas == {0, 50, 100}

\* minutes a fitted regressor / calibrator can return
RawMinutes == {-5, 75, 82, 87, 100}

MakeRequest(appearances, gameweek) ==
    [playerId |-> "p1", position |-> "MID", price |-> 55, gameweek |-> gameweek,
     isHome |-> TRUE, appearances |-> appearances]

\* the two list orders a caller sends: oldest first or newest first
ListOrders(h) == {h, Reverse(h)}

NoResp == [op |-> None]

----------------------------------------------------------------------------
\* Library calls (xgboost / sklearn), by what they accept

\* model.predict on a DataFrame: the column names must be the fitted ones
DataFrameAccepted(fitted, columns) == columns = fitted

\* model.predict on a bare array: only the width is checked
ArrayAccepted(fitted, X) == Len(X) = Len(fitted)

\* np.clip(x, lo, hi)
Clip(x, lo, hi) == IF x < lo THEN lo ELSE IF x > hi THEN hi ELSE x

----------------------------------------------------------------------------
\* ml-service/app.py: prediction

\* the P90 tiers of predict_xmins, in 1/10000
AppP90(minutes_if_started, start_proba) ==
    IF minutes_if_started >= 85 THEN 85 * start_proba
    ELSE IF minutes_if_started >= 80 THEN 60 * start_proba
    ELSE IF minutes_if_started >= 70 THEN 35 * start_proba
    ELSE 10 * start_proba

\* predict_xmins without its test for missing models: calling predict_proba
\* on None raises AttributeError
predict_xmins_unguarded(svc, features, p, m) ==
    IF svc.start_model = <<>> \/ svc.minutes_model = <<>>
    THEN [raised |-> "AttributeError", called |-> FALSE]
    ELSE
    LET feature_names == svc.metadata[1].start_features
        X == VectorOf(features, feature_names)
        minutes_if_started == Clip(m, 0, MaxMinutes)
    IN IF ~ArrayAccepted(svc.start_model[1], X)
          \/ ~ArrayAccepted(svc.minutes_model[1], X)
       THEN [raised |-> "ValueError", called |-> TRUE, columns |-> feature_names]
       ELSE [raised |-> None, called |-> TRUE, columns |-> feature_names,
             startProb |-> p,
             xMinsStart |-> minutes_if_started,
             xMins |-> p * minutes_if_started,
             p90 |-> AppP90(minutes_if_started, p)]

\* predict_xmins(features) with the outputs p, m of the two models:
\* the dict it returns, or what it raises
predict_xmins(svc, features, p, m) ==
    IF svc.start_model = <<>> \/ svc.minutes_model = <<>>
    THEN [raised |-> "HTTPException503", called |-> FALSE]
    ELSE
    LET feature_names == svc.metadata[1].start_features
        X == VectorOf(features, feature_names)
        minutes_if_started == Clip(m, 0, MaxMinutes)
    IN IF ~ArrayAccepted(svc.start_model[1], X)
          \/ ~ArrayAccepted(svc.minutes_model[1], X)
       THEN [raised |-> "ValueError", called |-> TRUE, columns |-> feature_names]
       ELSE [raised |-> None, called |-> TRUE, columns |-> feature_names,
             startProb |-> p,
             xMinsStart |-> minutes_if_started,
             xMins |-> p * minutes_if_started,
             p90 |-> AppP90(minutes_if_started, p)]

\* POST /predict of app.py
AppPredictResponse(svc, request, p, m) ==
    LET features == engineer_features_from_appearances(
                        request.appearances, request.position, request.isHome,
                        request.gameweek, request.price, Now)
        prediction == predict_xmins(svc, features, p, m)
    IN IF prediction.raised # None
       THEN [op |-> "app.predict", status |-> 500, detail |-> prediction.raised,
             gameweek |-> request.gameweek,
             called |-> prediction.called,
             columns |-> IF prediction.called THEN prediction.columns ELSE <<>>]
       ELSE [op |-> "app.predict", status |-> 200,
             gameweek |-> request.gameweek,
             startProb |-> prediction.startProb,
             xMinsStart |-> prediction.xMinsStart,
             xMins |-> prediction.xMins,
             p90 |-> prediction.p90,
             uncertaintyLo |-> <<>>, uncertaintyHi |-> <<>>,
             flags |-> [sparse_data |-> Len(request.appearances) < SparseBelow,
                        role_lock |-> Get0(features, "role_lock") = 1],
             called |-> TRUE,
             columns |-> prediction.columns]

----------------------------------------------------------------------------
\* ml-service/api.py: prediction

\* POST /predict of api.py; m is the calibrator's output
ApiPredictResponse(svc, request, p, m) ==
    LET features == engineer_features(request, svc.feature_config.start_features, Now)
        minutes_pred == Clip(m, 0, MaxMinutes)
        xmins == p * minutes_pred
    IN IF features.raised # None
       THEN [op |-> "api.predict", status |-> 500, detail |-> features.raised,
             gameweek |-> request.gameweek, called |-> FALSE, columns |-> <<>>]
       ELSE IF ~DataFrameAccepted(svc.start_model, features.columns)
               \/ ~DataFrameAccepted(svc.minutes_model, features.columns)
       THEN [op |-> "api.predict", status |-> 500, detail |-> "ValueError",
             gameweek |-> request.gameweek, called |-> TRUE,
             columns |-> features.columns]
       ELSE [op |-> "api.predict", status |-> 200,
             gameweek |-> request.gameweek,
             startProb |-> p,
             xMinsStart |-> minutes_pred,
             xMins |-> xmins,
             p90 |-> IF minutes_pred >= 85 THEN 100 * p ELSE 60 * p,
             uncertaintyLo |-> <<Max2(0, xmins - 100 * BandHalfWidth)>>,
             uncertaintyHi |-> <<Min2(100 * MaxMinutes, xmins + 100 * BandHalfWidth)>>,
             flags |-> [sparse_data |-> Len(request.appearances) < SparseBelow,
                        role_lock |->
                            IF "role_lock" \in Range(features.columns)
                            THEN \E i \in 1..Len(features.columns) :
                                    /\ features.columns[i] = "role_lock"
                                    /\ features.values[i] = 1
                            ELSE FALSE],
             called |-> TRUE,
             columns |-> features.columns]

----------------------------------------------------------------------------
\* python-service: stage models and prediction

\* a feature dict: its keys in insertion order and its values
FeatureDictOf(features) ==
    [keys |-> IF features.use_prior = 1 THEN PyPriorKeys ELSE PyDataKeys,
     values |-> features]

\* mock_features of predict_xmins (means in 1/840, weighted mean in tenths,
\* minutes_std in tenths)
mock_features ==
    [keys |-> StageAFeatureCols,
     values |-> [num_healthy_starts |-> 6, weighted_avg_minutes |-> 825,
                 last_3_avg_minutes |-> 85 * 840, last_5_avg_minutes |-> 83 * 840,
                 minutes_std |-> 52, role_lock |-> 1, start_frequency |-> 756,
                 congestion_flag |-> 0, intl_window_flag |-> 0,
                 avg_days_rest |-> 7, viable_backups |-> 1,
                 position_encoded |-> 2]]

\* P(minutes >= 90) a fitted survival function can give, percent
SurvivalAt90 == {0, 50}

\* an estimator or scaler object: the train invocation that fitted it
\* (0: as constructed, never fitted) and the columns it was fitted on
Unfitted == [run |-> 0, fitted |-> <<>>]

FittedBy(run, columns) == [run |-> run, fitted |-> columns]

\* StartProbabilityModel.__init__
StartProbabilityModel_init ==
    [is_trained |-> FALSE, feature_names |-> <<>>,
     model |-> Unfitted, scaler |-> Unfitted]

\* MinutesGivenStartModel.__init__
MinutesGivenStartModel_init ==
    [is_trained |-> FALSE, feature_names |-> <<>>, model |-> Unfitted]

\* a train that fits whatever it is given: the statements of
\* StartProbabilityModel.train after its size check
StartProbabilityModel_train_any_size(self, training_data, run) ==
    LET available_features == Available(StageAFeatureCols, training_data.columns)
        prepared == [self EXCEPT !.feature_names = available_features]
        scaled == [prepared EXCEPT !.scaler = FittedBy(run, available_features)]
    IN IF "started" \notin training_data.columns
       THEN [raised |-> "KeyError", model |-> prepared]
       ELSE IF training_data.classes < 2
       THEN [raised |-> "ValueError", model |-> scaled]
       ELSE [raised |-> None,
             model |-> [scaled EXCEPT !.model = FittedBy(run, available_features),
                                      !.is_trained = TRUE]]

\* StartProbabilityModel.train(training_data), the run-th train invocation.
\* training_data: n rows, the column names, the distinct labels of "started".
\* The object is changed in place, statement by statement; LogisticRegression
\* .fit raises ValueError on labels of a single class.
StartProbabilityModel_train(self, training_data, run) ==
    IF training_data.n < MinTrainingSamples
    THEN [raised |-> "ValueError", model |-> self]
    ELSE
    LET available_features == Available(StageAFeatureCols, training_data.columns)
        prepared == [self EXCEPT !.feature_names = available_features]
        scaled == [prepared EXCEPT !.scaler = FittedBy(run, available_features)]
    IN IF "started" \notin training_data.columns
       THEN [raised |-> "KeyError", model |-> prepared]
       ELSE IF training_data.classes < 2
       THEN [raised |-> "ValueError", model |-> scaled]
       ELSE [raised |-> None,
             model |-> [scaled EXCEPT !.model = FittedBy(run, available_features),
                                      !.is_trained = TRUE]]

\* MinutesGivenStartModel.train(training_data), the run-th train invocation;
\* converges: WeibullAFTFitter.fit returns, or raises ConvergenceError
MinutesGivenStartModel_train(self, training_data, run, converges) ==
    IF training_data.n < MinTrainingSamples
    THEN [raised |-> "ValueError", model |-> self]
    ELSE
    LET available_features == Available(StageBFeatureCols, training_data.columns)
        prepared == [self EXCEPT !.feature_names = available_features]
    IN IF "minutes" \notin training_data.columns
       THEN [raised |-> "KeyError", model |-> prepared]
       ELSE IF ~converges
       THEN [raised |-> "ConvergenceError", model |-> prepared]
       ELSE [raised |-> None,
             model |-> [prepared EXCEPT !.model = FittedBy(run, available_features),
                                        !.is_trained = TRUE]]

\* StartProbabilityModel.predict_single(features); p is what predict_proba gives.
\* prepare_features rewrites feature_names from the columns of the input.
StartProbabilityModel_predict_single(self, features, p) ==
    IF ~self.is_trained
    THEN [raised |-> "RuntimeError", called |-> FALSE, model |-> self]
    ELSE LET available_features == Available(StageAFeatureCols, Range(features.keys))
             after == [self EXCEPT !.feature_names = available_features]
         IN IF ~ArrayAccepted(self.scaler.fitted, available_features)
               \/ ~ArrayAccepted(self.model.fitted, available_features)
            THEN [raised |-> "ValueError", called |-> FALSE, model |-> after]
            ELSE [raised |-> None, called |-> TRUE, model |-> after,
                  columns |-> available_features, proba |-> p]

\* MinutesGivenStartModel.predict_single(features); m is predict_expectation,
\* s90 the survival function at minute 90
MinutesGivenStartModel_predict_single(self, features, m, s90) ==
    IF ~self.is_trained
    THEN [raised |-> "RuntimeError", called |-> FALSE]
    ELSE IF ~(Range(self.feature_names) \subseteq Range(features.keys))
    THEN [raised |-> "KeyError", called |-> FALSE]
    ELSE [raised |-> None, called |-> TRUE,
          columns |-> self.feature_names,
          expected_minutes |-> Clip(m, 0, SurvivalCap),
          p90 |-> s90]

\* round(x, 1) of a value kept in hundredths: the result in tenths
RoundTenths(hundredths) ==
    LET q == hundredths \div 10
        r == hundredths % 10
    IN IF r > 5 \/ (r = 5 /\ q % 2 = 1) THEN q + 1 ELSE q

\* predict_xmins of python-service/app/api/predict.py: the dict it returns
\* (minutes in tenths) or what it raises, and the stage A model afterwards
predict_xmins_py(a, b, p, m, s90) ==
    IF ~a.is_trained \/ ~b.is_trained
    THEN [model |-> a, out |-> [op |-> "py.predict", raised |-> "RuntimeError"]]
    ELSE
    LET stage_a_out == StartProbabilityModel_predict_single(a, mock_features, p)
        stage_b_out == MinutesGivenStartModel_predict_single(b, mock_features, m, s90)
    IN IF stage_a_out.raised # None
       THEN [model |-> stage_a_out.model,
             out |-> [op |-> "py.predict", raised |-> stage_a_out.raised]]
       ELSE IF stage_b_out.raised # None
       THEN [model |-> stage_a_out.model,
             out |-> [op |-> "py.predict", raised |-> stage_b_out.raised]]
       ELSE
       LET effective_xmins == stage_a_out.proba * stage_b_out.expected_minutes
       IN [model |-> stage_a_out.model,
           out |-> [op |-> "py.predict", raised |-> None,
                    gameweek |-> 0,
                    start_prob |-> stage_a_out.proba,
                    xmins_start |-> RoundTenths(100 * stage_b_out.expected_minutes),
                    p90 |-> stage_b_out.p90,
                    effective_xmins |-> RoundTenths(effective_xmins),
                    uncertainty_lo |->
                        RoundTenths(effective_xmins - 100 * BandHalfWidth),
                    uncertainty_hi |->
                        RoundTenths(effective_xmins + 100 * BandHalfWidth),
                    features_used |-> mock_features.keys,
                    flags |-> [role_lock |-> mock_features.values.role_lock = 1,
                               sparse_data |->
                                   mock_features.values.num_healthy_starts < 5]]]

\* mock_appearances of train_models: one player, ten gameweeks
MockAppearances ==
    LET started == <<TRUE, TRUE, TRUE, FALSE, TRUE, TRUE, TRUE, TRUE, FALSE, TRUE>>
        minutes == <<90, 85, 88, 0, 90, 87, 90, 90, 15, 90>>
    IN [i \in 1..10 |->
           [gameweek |-> i, date |-> i - 1, started |-> started[i],
            minutes |-> minutes[i], injExit |-> FALSE, redCard |-> FALSE]]

\* prepare_training_data for the appearances of one player: one record per
\* appearance with at least 3 earlier appearances and features not from priors
prepare_training_data(all_appearances) ==
    LET player_apps == SortByDate(all_appearances)
        History(row) == SelectSeq(player_apps, LAMBDA r : r.date < row.date)
        built == <<>> \o
            [i \in 1..Len(player_apps) |->
                LET row == player_apps[i]
                    features == build_features_for_prediction(
                                    History(row), [position |-> "MID"],
                                    [given |-> FALSE], 8)
                IN [kept |-> Len(History(row)) >= 3 /\ features.use_prior = 0,
                    features |-> features, gameweek |-> row.gameweek,
                    started |-> Bool01(row.started), minutes |-> row.minutes,
                    healthy |-> row.started /\ ~row.injExit /\ ~row.redCard]]
        Record(b) == [features |-> b.features, gameweek |-> b.gameweek,
                      started |-> b.started, minutes |-> b.minutes]
        kept == SelectSeq(built, LAMBDA b : b.kept)
        starts == SelectSeq(kept, LAMBDA b : b.healthy)
    IN [stage_a_data |-> [i \in 1..Len(kept) |-> Record(kept[i])],
        stage_b_data |-> [i \in 1..Len(starts) |-> Record(starts[i])]]

\* models/start_probability.pkl, models/minutes_given_start.pkl
NoPyModels == [stage_a |-> <<>>, stage_b |-> <<>>]

\* get_model(): a fresh instance, loaded from the pickle when the file exists;
\* readable: load returns, or raises and leaves the fresh instance
get_model(fresh, file, readable) ==
    IF file # <<>> /\ readable THEN file[1] ELSE fresh

\* one player's appearances over a season of n weekly games, left out of the
\* squad every k-th game (k = 0: never), otherwise a full start
Season(n, k) ==
    [i \in 1..n |->
        LET benched == k > 0 /\ i % k = 0
        IN [gameweek |-> i, date |-> i - 1, started |-> ~benched,
            minutes |-> IF benched THEN 0 ELSE 90,
            injExit |-> FALSE, redCard |-> FALSE]]

\* the appearances the fetch step of train_models hands to
\* prepare_training_data: the frame written into the function, or a season
\* of a player (a short one, an ever-present one, a rotated one)
FetchedFrames ==
    [mock |-> MockAppearances,
     short |-> Season(MinTrainingSamples - 7, 10),
     nailed |-> Season(SeasonGames, 0),
     rotated |-> Season(SeasonGames, 10)]

\* stage_a_data, stage_b_data of each fetched frame
PreparedData ==
    [f \in DOMAIN FetchedFrames |-> prepare_training_data(FetchedFrames[f])]

\* pd.DataFrame(stage_a_records) as StartProbabilityModel.train reads it
StageAFrame(records) ==
    [n |-> Len(records),
     columns |-> IF Len(records) = 0 THEN {}
                 ELSE Range(PyDataKeys) \cup {"started", "player_id", "gameweek"},
     classes |-> Cardinality({records[i].started : i \in 1..Len(records)})]

\* pd.DataFrame(stage_b_records) as MinutesGivenStartModel.train reads it
StageBFrame(records) ==
    [n |-> Len(records),
     columns |-> IF Len(records) = 0 THEN {}
                 ELSE Range(PyDataKeys)
                      \cup {"minutes", "full_90", "player_id", "gameweek"}]

\* the /train requests of a behaviour
TaskIds == 1..MaxTrainRuns

\* a /train request that has not been sent
IdleTask == [pc |-> "idle", frame |-> None, run |-> 0, raised |-> None]

\* no /train request sent, the event loop free
NoTraining ==
    /\ tasks = [t \in TaskIds |-> IdleTask]
    /\ loop = 0
    /\ fits = IF pyModelsDir = NoPyModels THEN 0 ELSE 1

----------------------------------------------------------------------------
\* Files and service state

NoFile == [exists |-> FALSE]

ConfigOf(start_features, minutes_features) ==
    [exists |-> TRUE, start_features |-> start_features,
     minutes_features |-> minutes_features]

FittedOn(start_features, minutes_features) ==
    [exists |-> TRUE, start_fitted |-> start_features,
     minutes_fitted |-> minutes_features]

\* api.py globals before load_models has run
ApiDown == [loaded |-> FALSE]

\* app.py globals when the try block at import failed
AppModelsNone == [start_model |-> <<>>, minutes_model |-> <<>>, metadata |-> <<>>]

\* a deployment whose model files and feature lists agree
DeployedFiles ==
    /\ configFile = ConfigOf(BaseFeatures, BaseFeatures)
    /\ csvCols = Range(BaseFeatures)
    /\ calibratedPkl = FittedOn(BaseFeatures, BaseFeatures)
    /\ modelsPkl = FittedOn(BaseFeatures, BaseFeatures)
    /\ metadataFile = ConfigOf(BaseFeatures, BaseFeatures)
    /\ apiSvc = [loaded |-> TRUE, start_model |-> BaseFeatures,
                 minutes_model |-> BaseFeatures,
                 feature_config |-> ConfigOf(BaseFeatures, BaseFeatures)]
    /\ runs = 0

\* the deployment with app.py imported after its model files were written
DeployedInit ==
    /\ DeployedFiles
    /\ appSvc = [start_model |-> <<BaseFeatures>>, minutes_model |-> <<BaseFeatures>>,
                 metadata |-> <<ConfigOf(BaseFeatures, BaseFeatures)>>]

----------------------------------------------------------------------------
\* Requests against the ml-service derivers and endpoints

\* the ingestion collaborator records the next appearance of the player
RecordAppearance ==
    /\ resp = NoResp
    /\ Len(history) < MaxLen
    /\ \E kind \in AppearanceKinds :
          history' = Append(history, MakeAppearance(kind, Len(history) + 1))
    /\ UNCHANGED <<resp, pipeVars, pyVars, trainVars>>

\* the response leaves the service
Respond ==
    /\ resp # NoResp
    /\ resp' = NoResp
    /\ UNCHANGED <<history, pipeVars, pyVars, trainVars>>

\* engineer_features_from_appearances applied to a request
EngineerApp ==
    /\ resp = NoResp
    /\ \E gameweek \in TargetGameweeks, appearances \in ListOrders(history) :
          LET request == MakeRequest(appearances, gameweek)
          IN resp' = [op |-> "app.engineer", gameweek |-> gameweek,
                      keys |-> IF appearances = <<>>
                               THEN AppDefaultKeys ELSE AppFeatureKeys,
                      features |-> engineer_features_from_appearances(
                                       request.appearances, request.position,
                                       request.isHome, request.gameweek,
                                       request.price, Now)]
    /\ UNCHANGED <<history, pipeVars, pyVars, trainVars>>

\* engineer_features applied to a request
EngineerApi ==
    /\ resp = NoResp
    /\ apiSvc.loaded
    /\ \E gameweek \in TargetGameweeks, appearances \in ListOrders(history) :
          resp' = [op |-> "api.engineer", gameweek |-> gameweek,
                   df |-> engineer_features(MakeRequest(appearances, gameweek),
                                            apiSvc.feature_config.start_features,
                                            Now)]
    /\ UNCHANGED <<history, pipeVars, pyVars, trainVars>>

\* team_appearances of a call: None (the default), or an empty frame
TeamFrames == {[given |-> FALSE], [given |-> TRUE, rows |-> <<>>]}

\* build_features_for_prediction applied to the player's appearances
BuildFeaturesPy ==
    /\ resp = NoResp
    /\ \E appearances \in ListOrders(history), team_appearances \in TeamFrames :
          LET features == build_features_for_prediction(
                              appearances, [position |-> "MID"],
                              team_appearances, 8)
          IN resp' = [op |-> "py.build",
                      keys |-> IF features.use_prior = 1
                               THEN PyPriorKeys ELSE PyDataKeys,
                      features |-> features]
    /\ UNCHANGED <<history, pipeVars, pyVars, trainVars>>

\* POST /predict of app.py
PredictApp ==
    /\ resp = NoResp
    /\ \E gameweek \in TargetGameweeks, appearances \in ListOrders(history),
          p \in StartProbas, m \in RawMinutes :
          resp' = AppPredictResponse(appSvc, MakeRequest(appearances, gameweek), p, m)
    /\ UNCHANGED <<history, pipeVars, pyVars, trainVars>>

\* POST /predict of api.py
PredictApi ==
    /\ resp = NoResp
    /\ apiSvc.loaded
    /\ \E gameweek \in TargetGameweeks, appearances \in ListOrders(history),
          p \in StartProbas, m \in RawMinutes :
          resp' = ApiPredictResponse(apiSvc, MakeRequest(appearances, gameweek), p, m)
    /\ UNCHANGED <<history, pipeVars, pyVars, trainVars>>

Init ==
    /\ history = <<>>
    /\ resp = NoResp
    /\ DeployedInit
    /\ pyModelsDir = NoPyModels
    /\ stage_a = get_model(StartProbabilityModel_init, pyModelsDir.stage_a, TRUE)
    /\ stage_b = get_model(MinutesGivenStartModel_init, pyModelsDir.stage_b, TRUE)
    /\ NoTraining

Next ==
    \/ RecordAppearance
    \/ Respond
    \/ EngineerApp
    \/ EngineerApi
    \/ BuildFeaturesPy
    \/ PredictApp
    \/ PredictApi

Spec == Init /\ [][Next]_vars

----------------------------------------------------------------------------
\* python-service and ml-service requests about given histories

\* histories a request can concern: none, benched only, four full starts,
\* and five full starts followed by a red-card exit
SampleHistories ==
    LET full == [started |-> TRUE, minutes |-> 90, redCard |-> FALSE, injExit |-> FALSE]
        bench == [started |-> FALSE, minutes |-> 0, redCard |-> FALSE, injExit |-> FALSE]
        red == [started |-> TRUE, minutes |-> 23, redCard |-> TRUE, injExit |-> FALSE]
    IN { <<>>,
         <<MakeAppearance(bench, 1)>>,
         [n \in 1..4 |-> MakeAppearance(full, n)],
         [n \in 1..MaxLen |-> MakeAppearance(IF n < MaxLen THEN full ELSE red, n)] }

\* pickles left by an earlier training run on complete frames
TrainedPyModels ==
    [stage_a |-> <<[is_trained |-> TRUE, feature_names |-> StageAFeatureCols,
                    model |-> FittedBy(1, StageAFeatureCols),
                    scaler |-> FittedBy(1, StageAFeatureCols)]>>,
     stage_b |-> <<[is_trained |-> TRUE, feature_names |-> StageBFeatureCols,
                    model |-> FittedBy(1, StageBFeatureCols)]>>]

\* predict_xmins of python-service
PyPredict ==
    /\ resp = NoResp
    /\ \E p \in StartProbas, m \in RawMinutes, s90 \in SurvivalAt90 :
          LET r == predict_xmins_py(stage_a, stage_b, p, m, s90)
          IN /\ resp' = r.out
             /\ stage_a' = r.model
    /\ UNCHANGED <<history, pipeVars, pyModelsDir, stage_b, trainVars>>

\* stage_a.predict_single on the features derived from the history
StageAPredictSingle ==
    /\ resp = NoResp
    /\ \E p \in StartProbas :
          LET features == FeatureDictOf(build_features_for_prediction(
                              history, [position |-> "MID"], [given |-> FALSE], 8))
              r == StartProbabilityModel_predict_single(stage_a, features, p)
          IN /\ resp' = [op |-> "py.stage_a", raised |-> r.raised,
                         called |-> r.called, keys |-> features.keys,
                         proba |-> IF r.raised = None THEN <<r.proba>> ELSE <<>>]
             /\ stage_a' = r.model
    /\ UNCHANGED <<history, pipeVars, pyModelsDir, stage_b, trainVars>>

\* stage_b.predict_single on the features derived from the history
StageBPredictSingle ==
    /\ resp = NoResp
    /\ \E m \in RawMinutes, s90 \in SurvivalAt90 :
          LET features == FeatureDictOf(build_features_for_prediction(
                              history, [position |-> "MID"], [given |-> FALSE], 8))
              r == MinutesGivenStartModel_predict_single(stage_b, features, m, s90)
          IN resp' = [op |-> "py.stage_b", raised |-> r.raised,
                      called |-> r.called, keys |-> features.keys,
                      expected_minutes |->
                          IF r.raised = None THEN <<r.expected_minutes>> ELSE <<>>]
    /\ UNCHANGED <<history, pipeVars, pyVars, trainVars>>


----------------------------------------------------------------------------
\* The training pipeline and the start of the ml-service processes
\* (PipelineSpec)

\* feature_engineering.py main(): create_feature_list, save_engineered_data
FeatureEngineering ==
    /\ runs < MaxRuns
    /\ runs' = runs + 1
    /\ csvCols' = Range(BaseFeatures)
    /\ configFile' = ConfigOf(BaseFeatures, BaseFeatures)
    /\ UNCHANGED <<history, resp, calibratedPkl, modelsPkl, metadataFile,
                   apiSvc, appSvc, pyVars, trainVars>>

\* add_rotation_features.py main()
AddRotationFeatures ==
    /\ runs < MaxRuns
    /\ configFile.exists
    /\ runs' = runs + 1
    /\ csvCols' = csvCols \cup Range(RotationFeatures) \cup Range(DepthFeatures)
    /\ configFile' =
          ConfigOf(Dedupe(configFile.start_features \o RotationFeatures),
                   Dedupe(configFile.minutes_features \o RotationFeatures))
    /\ UNCHANGED <<history, resp, calibratedPkl, modelsPkl, metadataFile,
                   apiSvc, appSvc, pyVars, trainVars>>

\* add_advanced_features.py main()
AddAdvancedFeatures ==
    /\ runs < MaxRuns
    /\ configFile.exists
    /\ runs' = runs + 1
    /\ csvCols' = csvCols \cup Range(AdvancedFeatures)
    /\ \E pick \in {1, 2} :
          LET Ordered(names) ==
                  IF pick = 1 THEN Dedupe(names) ELSE Reverse(Dedupe(names))
          IN configFile' =
                 ConfigOf(Ordered(configFile.start_features \o AdvancedFeatures),
                          Ordered(configFile.minutes_features \o AdvancedFeatures))
    /\ UNCHANGED <<history, resp, calibratedPkl, modelsPkl, metadataFile,
                   apiSvc, appSvc, pyVars, trainVars>>

\* train_calibrated.py main(): load_training_data extends the lists in
\* memory, the models are fitted on the extended lists, only the models
\* are saved
TrainCalibrated ==
    /\ runs < MaxRuns
    /\ configFile.exists
    /\ LET start_features == configFile.start_features \o DepthFeatures
           minutes_features == configFile.minutes_features \o DepthFeatures
           columns == csvCols \cup Range(DepthFeatures)
       IN /\ Range(start_features) \subseteq columns
          /\ Range(minutes_features) \subseteq columns
          /\ calibratedPkl' = FittedOn(start_features, minutes_features)
    /\ runs' = runs + 1
    /\ UNCHANGED <<history, resp, configFile, csvCols, modelsPkl, metadataFile,
                   apiSvc, appSvc, pyVars, trainVars>>

\* train_models.py main(): load_training_data, fit, save_models
TrainModels ==
    /\ runs < MaxRuns
    /\ configFile.exists
    /\ Range(configFile.start_features) \subseteq csvCols
    /\ Range(configFile.minutes_features) \subseteq csvCols
    /\ runs' = runs + 1
    /\ modelsPkl' = FittedOn(configFile.start_features, configFile.minutes_features)
    /\ metadataFile' = configFile
    /\ UNCHANGED <<history, resp, configFile, csvCols, calibratedPkl,
                   apiSvc, appSvc, pyVars, trainVars>>

\* api.py load_models() at startup; a failed load stops the process
ApiStartup ==
    /\ resp = NoResp
    /\ apiSvc' = IF calibratedPkl.exists /\ configFile.exists
                 THEN [loaded |-> TRUE,
                       start_model |-> calibratedPkl.start_fitted,
                       minutes_model |-> calibratedPkl.minutes_fitted,
                       feature_config |-> configFile]
                 ELSE ApiDown
    /\ UNCHANGED <<history, resp, configFile, csvCols, calibratedPkl, modelsPkl,
                   metadataFile, appSvc, runs, pyVars, trainVars>>

\* app.py module import: the try block that loads models and metadata
AppStartup ==
    /\ resp = NoResp
    /\ appSvc' = IF modelsPkl.exists /\ metadataFile.exists
                 THEN [start_model |-> <<modelsPkl.start_fitted>>,
                       minutes_model |-> <<modelsPkl.minutes_fitted>>,
                       metadata |-> <<metadataFile>>]
                 ELSE AppModelsNone
    /\ UNCHANGED <<history, resp, configFile, csvCols, calibratedPkl, modelsPkl,
                   metadataFile, apiSvc, runs, pyVars, trainVars>>

\* four full starts, then a request for the next gameweek
PipelineHistory ==
    [n \in 1..4 |->
        MakeAppearance([started |-> TRUE, minutes |-> 90, redCard |-> FALSE,
                        injExit |-> FALSE], n)]

PipelineInit ==
    /\ history = PipelineHistory
    /\ resp = NoResp
    /\ configFile = NoFile
    /\ csvCols = {}
    /\ calibratedPkl = NoFile
    /\ modelsPkl = NoFile
    /\ metadataFile = NoFile
    /\ apiSvc = ApiDown
    /\ appSvc = AppModelsNone
    /\ runs = 0
    /\ pyModelsDir = NoPyModels
    /\ stage_a = get_model(StartProbabilityModel_init, pyModelsDir.stage_a, TRUE)
    /\ stage_b = get_model(MinutesGivenStartModel_init, pyModelsDir.stage_b, TRUE)
    /\ NoTraining

PipelineNext ==
    \/ FeatureEngineering
    \/ AddRotationFeatures
    \/ AddAdvancedFeatures
    \/ TrainCalibrated
    \/ TrainModels
    \/ ApiStartup
    \/ AppStartup
    \/ PredictApi
    \/ PredictApp
    \/ Respond

PipelineSpec == PipelineInit /\ [][PipelineNext]_vars

----------------------------------------------------------------------------
\* python-service training runs and the predictions between them (TrainSpec)
\* The handlers are coroutines on one event loop: a coroutine keeps the
\* loop thread from its first statement until it awaits something that
\* suspends or returns.

\* a fetch step that awaits a reply of the data store and so hands the
\* event loop to the other coroutines
FetchSuspends == TRUE

\* whether the fetch step of train_models awaits the data store: the frame
\* is built in place, the coroutine never suspends
TrainAwaitsFetch == FALSE

\* a /train request reaches the server: its coroutine waits for the loop
TrainRequest(t) ==
    /\ resp = NoResp
    /\ tasks[t].pc = "idle"
    /\ \A u \in 1..(t - 1) : tasks[u].pc # "idle"
    /\ tasks' = [tasks EXCEPT ![t].pc = "queued"]
    /\ UNCHANGED <<history, resp, pipeVars, pyVars, loop, fits>>

\* train_models up to the size check: fetch, prepare_training_data, raise
\* on fewer than 50 rows for either stage
TrainStart(t) ==
    /\ resp = NoResp
    /\ loop = 0
    /\ tasks[t].pc \in {"queued", "fetching"}
    /\ IF tasks[t].pc = "queued" /\ TrainAwaitsFetch
       THEN /\ tasks' = [tasks EXCEPT ![t].pc = "fetching"]
            /\ UNCHANGED <<resp, loop, fits>>
       ELSE \E f \in DOMAIN FetchedFrames :
               LET stage_a_data == PreparedData[f].stage_a_data
                   stage_b_data == PreparedData[f].stage_b_data
               IN IF Len(stage_a_data) < MinTrainingSamples
                     \/ Len(stage_b_data) < MinTrainingSamples
                  THEN /\ tasks' = [tasks EXCEPT ![t] =
                                       [pc |-> "done", frame |-> f, run |-> 0,
                                        raised |-> "ValueError"]]
                       /\ resp' = [op |-> "py.train", task |-> t,
                                   raised |-> "ValueError"]
                       /\ UNCHANGED <<loop, fits>>
                  ELSE /\ fits < MaxFits
                       /\ tasks' = [tasks EXCEPT ![t] =
                                       [pc |-> "fit_a", frame |-> f,
                                        run |-> fits + 1, raised |-> None]]
                       /\ loop' = t
                       /\ fits' = fits + 1
                       /\ UNCHANGED resp
    /\ UNCHANGED <<history, pipeVars, pyVars>>

\* train_models: stage_a = get_stage_a_model(); stage_a.train(stage_a_data)
TrainFitA(t) ==
    /\ loop = t
    /\ tasks[t].pc = "fit_a"
    /\ LET r == StartProbabilityModel_train(
                    stage_a, StageAFrame(PreparedData[tasks[t].frame].stage_a_data),
                    tasks[t].run)
       IN /\ stage_a' = r.model
          /\ IF r.raised # None
             THEN /\ tasks' = [tasks EXCEPT ![t].pc = "done", ![t].raised = r.raised]
                  /\ loop' = 0
                  /\ resp' = [op |-> "py.train", task |-> t, raised |-> r.raised]
             ELSE /\ tasks' = [tasks EXCEPT ![t].pc = "fit_b"]
                  /\ UNCHANGED <<loop, resp>>
    /\ UNCHANGED <<history, pipeVars, pyModelsDir, stage_b, fits>>

\* train_models: stage_b = get_stage_b_model(); stage_b.train(stage_b_data)
TrainFitB(t) ==
    /\ loop = t
    /\ tasks[t].pc = "fit_b"
    /\ \E converges \in BOOLEAN :
          LET r == MinutesGivenStartModel_train(
                       stage_b,
                       StageBFrame(PreparedData[tasks[t].frame].stage_b_data),
                       tasks[t].run, converges)
          IN /\ stage_b' = r.model
             /\ IF r.raised # None
                THEN /\ tasks' = [tasks EXCEPT ![t].pc = "done",
                                               ![t].raised = r.raised]
                     /\ loop' = 0
                     /\ resp' = [op |-> "py.train", task |-> t, raised |-> r.raised]
                ELSE /\ tasks' = [tasks EXCEPT ![t].pc = "save"]
                     /\ UNCHANGED <<loop, resp>>
    /\ UNCHANGED <<history, pipeVars, pyModelsDir, stage_a, fits>>

\* train_models: stage_a.save(...); stage_b.save(...); return.
\* written: the files open() could write before it raised OSError
TrainSave(t) ==
    /\ loop = t
    /\ tasks[t].pc = "save"
    /\ \E written \in 0..2 :
          LET raised == IF written = 2 THEN None ELSE "OSError"
          IN /\ pyModelsDir' =
                    [stage_a |-> IF written >= 1 THEN <<stage_a>>
                                 ELSE pyModelsDir.stage_a,
                     stage_b |-> IF written >= 2 THEN <<stage_b>>
                                 ELSE pyModelsDir.stage_b]
             /\ tasks' = [tasks EXCEPT ![t].pc = "done", ![t].raised = raised]
             /\ resp' = [op |-> "py.train", task |-> t, raised |-> raised]
    /\ loop' = 0
    /\ UNCHANGED <<history, pipeVars, stage_a, stage_b, fits>>

\* predict_xmins of python-service, between two training coroutines
TrainSpecPredict ==
    /\ loop = 0
    /\ PyPredict

TrainInit ==
    /\ history = PipelineHistory
    /\ resp = NoResp
    /\ DeployedInit
    /\ pyModelsDir \in {NoPyModels, TrainedPyModels}
    /\ \E readable \in BOOLEAN :
          /\ stage_a = get_model(StartProbabilityModel_init,
                                 pyModelsDir.stage_a, readable)
          /\ stage_b = get_model(MinutesGivenStartModel_init,
                                 pyModelsDir.stage_b, readable)
    /\ NoTraining

TrainNext ==
    \/ \E t \in TaskIds : TrainRequest(t)
    \/ \E t \in TaskIds : TrainStart(t)
    \/ \E t \in TaskIds : TrainFitA(t)
    \/ \E t \in TaskIds : TrainFitB(t)
    \/ \E t \in TaskIds : TrainSave(t)
    \/ TrainSpecPredict
    \/ Respond

TrainSpec == TrainInit /\ [][TrainNext]_vars

----------------------------------------------------------------------------
\* The three services answering requests about given histories, the stage
\* models trained by direct calls, and batches (PySpec)

\* stage_a.train(frame) called on the singleton
StageATrain ==
    /\ resp = NoResp
    /\ loop = 0
    /\ fits < MaxFits
    /\ \E f \in DOMAIN FetchedFrames :
          LET training_data == StageAFrame(PreparedData[f].stage_a_data)
              r == StartProbabilityModel_train(stage_a, training_data, fits + 1)
          IN /\ stage_a' = r.model
             /\ resp' = [op |-> "py.stage_a.train", n |-> training_data.n,
                         run |-> fits + 1, raised |-> r.raised]
    /\ fits' = fits + 1
    /\ UNCHANGED <<history, pipeVars, pyModelsDir, stage_b, tasks, loop>>

\* stage_b.train(frame) called on the singleton
StageBTrain ==
    /\ resp = NoResp
    /\ loop = 0
    /\ fits < MaxFits
    /\ \E f \in DOMAIN FetchedFrames, converges \in BOOLEAN :
          LET training_data == StageBFrame(PreparedData[f].stage_b_data)
              r == MinutesGivenStartModel_train(stage_b, training_data,
                                                fits + 1, converges)
          IN /\ stage_b' = r.model
             /\ resp' = [op |-> "py.stage_b.train", n |-> training_data.n,
                         run |-> fits + 1, raised |-> r.raised]
    /\ fits' = fits + 1
    /\ UNCHANGED <<history, pipeVars, pyModelsDir, stage_a, tasks, loop>>

\* the player ids of a batch of k requests
BatchPlayers(k) == [i \in 1..k |-> i]

\* the loop of batch_predict_xmins without its try/except: the first
\* prediction that raises ends the batch with its exception
RECURSIVE batch_predict_xmins_propagating(_, _, _, _, _, _)
batch_predict_xmins_propagating(a, b, requests, p, m, s90) ==
    IF requests = <<>>
    THEN [model |-> a, raised |-> None, predictions |-> <<>>]
    ELSE LET pred == predict_xmins_py(a, b, p, m, s90)
             rest == batch_predict_xmins_propagating(pred.model, b, Tail(requests),
                                                     p, m, s90)
         IN IF pred.out.raised # None
            THEN [model |-> pred.model, raised |-> pred.out.raised,
                  predictions |-> <<>>]
            ELSE [rest EXCEPT !.predictions =
                     <<[player_id |-> Head(requests), pred |-> pred.out]>> \o @]

\* batch_predict_xmins(requests): the predictions list and the stage A
\* singleton afterwards
RECURSIVE batch_predict_xmins(_, _, _, _, _, _)
batch_predict_xmins(a, b, requests, p, m, s90) ==
    IF requests = <<>>
    THEN [model |-> a, raised |-> None, predictions |-> <<>>]
    ELSE LET pred == predict_xmins_py(a, b, p, m, s90)
             rest == batch_predict_xmins(pred.model, b, Tail(requests), p, m, s90)
         IN IF pred.out.raised # None
            THEN rest
            ELSE [rest EXCEPT !.predictions =
                     <<[player_id |-> Head(requests), pred |-> pred.out]>> \o @]

\* POST /predict/batch of python-service
PyPredictBatch ==
    /\ resp = NoResp
    /\ loop = 0
    /\ \E k \in 0..MaxBatch, p \in StartProbas, m \in RawMinutes,
          s90 \in SurvivalAt90 :
          LET r == batch_predict_xmins(stage_a, stage_b, BatchPlayers(k), p, m, s90)
              one == predict_xmins_py(stage_a, stage_b, p, m, s90).out
          IN /\ resp' = [op |-> "py.batch", raised |-> r.raised,
                         requests |-> BatchPlayers(k),
                         failed |-> one.raised # None,
                         predictions |->
                             [i \in 1..Len(r.predictions) |->
                                 r.predictions[i].player_id]]
             /\ stage_a' = r.model
    /\ UNCHANGED <<history, pipeVars, pyModelsDir, stage_b, trainVars>>

\* the requests of an app.py batch: player i with the first i - 1
\* appearances of the history
AppBatchRequests(k) ==
    [i \in 1..k |-> [MakeRequest(Head_n(history, i - 1), MaxLen + 1)
                        EXCEPT !.playerId = i]]

\* predict_batch of app.py: the responses of the players predicted
RECURSIVE predict_batch(_, _, _, _)
predict_batch(svc, players, p, m) ==
    IF players = <<>>
    THEN [raised |-> None, results |-> <<>>]
    ELSE LET pred == AppPredictResponse(svc, Head(players), p, m)
             rest == predict_batch(svc, Tail(players), p, m)
         IN IF pred.status # 200
            THEN rest
            ELSE [rest EXCEPT !.results =
                     <<[playerId |-> Head(players).playerId, pred |-> pred]>> \o @]

\* POST /predict/batch of app.py
AppPredictBatch ==
    /\ resp = NoResp
    /\ \E k \in 0..MaxBatch, p \in StartProbas, m \in RawMinutes :
          LET players == AppBatchRequests(k)
              r == predict_batch(appSvc, players, p, m)
          IN resp' = [op |-> "app.batch", raised |-> r.raised,
                      requests |-> [i \in 1..k |-> players[i].playerId],
                      failed |-> appSvc.start_model = <<>>,
                      predictions |->
                          [i \in 1..Len(r.results) |-> r.results[i].playerId]]
    /\ UNCHANGED <<history, pipeVars, pyVars, trainVars>>

\* app.py globals after an import that found its model files
AppLoaded ==
    [start_model |-> <<BaseFeatures>>, minutes_model |-> <<BaseFeatures>>,
     metadata |-> <<ConfigOf(BaseFeatures, BaseFeatures)>>]

PyInit ==
    /\ history \in SampleHistories
    /\ resp = NoResp
    /\ DeployedFiles
    /\ appSvc \in {AppLoaded, AppModelsNone}
    /\ pyModelsDir \in {NoPyModels, TrainedPyModels}
    /\ \E readable \in BOOLEAN :
          /\ stage_a = get_model(StartProbabilityModel_init,
                                 pyModelsDir.stage_a, readable)
          /\ stage_b = get_model(MinutesGivenStartModel_init,
                                 pyModelsDir.stage_b, readable)
    /\ NoTraining

PyNext ==
    \/ PyPredict
    \/ StageAPredictSingle
    \/ StageBPredictSingle
    \/ StageATrain
    \/ StageBTrain
    \/ PyPredictBatch
    \/ BuildFeaturesPy
    \/ PredictApp
    \/ PredictApi
    \/ AppPredictBatch
    \/ AppStartup
    \/ Respond

PySpec == PyInit /\ [][PyNext]_vars


----------------------------------------------------------------------------
\* The recent-form features at inference and in the training table (FormSpec)

\* DataFrame.fillna(0) on one cell
FillNa0(x) == IF x = NaN THEN 0 ELSE x

\* the rows rolling(window).f().shift(1) reads for row i of a player's
\* group: the window that ends at the row before
ShiftedWindow(rows, i, window) == SubSeq(rows, Max2(1, i - window), i - 1)

\* rolling(window, min_periods=1).mean().shift(1) of a column
RollingMean(xs) == IF Len(xs) >= 1 THEN MeanScaled(xs) ELSE NaN

\* rolling(window, min_periods=1).std().shift(1): the std of one
\* observation is NaN
RollingStd(xs) == IF Len(xs) >= 2 THEN VarScaled(xs) ELSE NaN

\* rolling(window, min_periods=2).apply(compute_trend).shift(1)
RollingTrend(xs) == IF Len(xs) >= 2 THEN SlopeScaled(xs) ELSE NaN

\* add_recent_form_features on the appearances of one player: per row, the
\* number of rows before it and the form columns after fillna(0)
add_recent_form_features(df) ==
    LET rows == SortByGameweek(df)
        Recent(i, window) == ShiftedWindow(rows, i, window)
    IN [i \in 1..Len(rows) |->
           [gameweek |-> rows[i].gameweek,
            prior |-> i - 1,
            avg_minutes_last_3 |-> FillNa0(RollingMean(Minutes(Recent(i, 3)))),
            start_rate_last_3 |-> FillNa0(RollingMean(Started01(Recent(i, 3)))),
            consistency_last_3 |-> FillNa0(RollingStd(Minutes(Recent(i, 3)))),
            trend_last_3 |-> FillNa0(RollingTrend(Minutes(Recent(i, 3)))),
            avg_minutes_last_5 |-> FillNa0(RollingMean(Minutes(Recent(i, 5)))),
            start_rate_last_5 |-> FillNa0(RollingMean(Started01(Recent(i, 5)))),
            consistency_last_5 |-> FillNa0(RollingStd(Minutes(Recent(i, 5)))),
            trend_last_5 |-> FillNa0(RollingTrend(Minutes(Recent(i, 5)))),
            avg_minutes_last_8 |-> FillNa0(RollingMean(Minutes(Recent(i, 8)))),
            start_rate_last_8 |-> FillNa0(RollingMean(Started01(Recent(i, 8)))),
            consistency_last_8 |-> FillNa0(RollingStd(Minutes(Recent(i, 8)))),
            trend_last_8 |-> FillNa0(RollingTrend(Minutes(Recent(i, 8))))]]

\* feature_engineering.py builds the form columns of the player's rows
AddRecentFormFeatures ==
    /\ resp = NoResp
    /\ \E appearances \in ListOrders(history) :
          resp' = [op |-> "table.form",
                   rows |-> add_recent_form_features(appearances)]
    /\ UNCHANGED <<history, pipeVars, pyVars, trainVars>>

\* count_consecutive of add_role_lock_feature: the running count of True
\* values, reset by a False
RECURSIVE count_consecutive(_)
count_consecutive(series) ==
    IF series = <<>> THEN <<>>
    ELSE LET front == count_consecutive(SubSeq(series, 1, Len(series) - 1))
             count == IF front = <<>> THEN 0 ELSE front[Len(front)]
         IN Append(front, IF series[Len(series)] THEN count + 1 ELSE 0)

\* groupby(...).shift(1).fillna(0) of a column of one player's group
Shift1Fill0(column) ==
    [i \in 1..Len(column) |-> IF i = 1 THEN 0 ELSE column[i - 1]]

\* add_role_lock_feature on the appearances of one player
add_role_lock_feature(df) ==
    LET rows == SortByGameweek(df)
        is_85plus_start == [i \in 1..Len(rows) |->
                               rows[i].started /\ rows[i].minutes >= RoleLockMinutes]
        consecutive_85plus == Shift1Fill0(count_consecutive(is_85plus_start))
    IN [i \in 1..Len(rows) |->
           [gameweek |-> rows[i].gameweek,
            consecutive_85plus |-> consecutive_85plus[i],
            role_lock |-> Bool01(consecutive_85plus[i] >= RoleLockRun)]]

\* feature_engineering.py builds the role-lock columns of the player's rows
AddRoleLockFeature ==
    /\ resp = NoResp
    /\ \E appearances \in ListOrders(history) :
          resp' = [op |-> "table.role_lock",
                   rows |-> add_role_lock_feature(appearances)]
    /\ UNCHANGED <<history, pipeVars, pyVars, trainVars>>

FormNext ==
    \/ RecordAppearance
    \/ Respond
    \/ EngineerApp
    \/ EngineerApi
    \/ AddRecentFormFeatures
    \/ AddRoleLockFeature

FormSpec == Init /\ [][FormNext]_vars

-----------------------------------------------------------------------------
\* Histories that span two seasons (the season field of an Appearance)

\* appearances a two-season history can hold
MaxSeasonLen == 4

\* Appearance.season, in the order of the strings
Seasons == <<"2023-24", "2024-25">>

\* gameweeks of a season an appearance can fall in
SeasonGameweeks == {1, 2, 38}

\* rank of a season string in the lexicographic order sort_values uses
SeasonRank(season) == CHOOSE k \in 1..Len(Seasons) : Seasons[k] = season

\* number of the period (season, gameweek) on the calendar
PeriodOf(season, gameweek) == 38 * (SeasonRank(season) - 1) + gameweek

\* an appearance of a gameweek of a season, played on the day of its period
MakeSeasonAppearance(kind, season, gameweek) ==
    [gameweek |-> gameweek, season |-> season,
     date |-> 7 * PeriodOf(season, gameweek), started |-> kind.started,
     minutes |-> kind.minutes, redCard |-> kind.redCard, injExit |-> kind.injExit]

\* sort_values(['fpl_id', 'season', 'gameweek']) on one player's rows
SortBySeasonGameweek(s) ==
    SortByKeys(s, [i \in 1..Len(s) |->
                      100 * SeasonRank(s[i].season) + s[i].gameweek])

\* add_lagged_target on the appearances of one player
add_lagged_target(df) ==
    LET rows == SortBySeasonGameweek(df)
        prev_gw_minutes == Shift1Fill0([i \in 1..Len(rows) |-> rows[i].minutes])
        prev_gw_started == Shift1Fill0([i \in 1..Len(rows) |->
                                           Bool01(rows[i].started)])
    IN [i \in 1..Len(rows) |->
           [gameweek |-> rows[i].gameweek, season |-> rows[i].season,
            prev_gw_minutes |-> prev_gw_minutes[i],
            prev_gw_started |-> prev_gw_started[i]]]

\* the player makes the next appearance, in this season or the next one
RecordSeasonAppearance ==
    /\ resp = NoResp
    /\ Len(history) < MaxSeasonLen
    /\ \E kind \in AppearanceKinds, k \in 1..Len(Seasons),
          gameweek \in SeasonGameweeks :
          /\ history # <<>> =>
                PeriodOf(history[Len(history)].season,
                         history[Len(history)].gameweek)
                    < PeriodOf(Seasons[k], gameweek)
          /\ history' = Append(history,
                               MakeSeasonAppearance(kind, Seasons[k], gameweek))
    /\ UNCHANGED <<resp, pipeVars, pyVars, trainVars>>

\* feature_engineering.py builds the lagged columns of the player's rows
AddLaggedTarget ==
    /\ resp = NoResp
    /\ \E appearances \in ListOrders(history) :
          resp' = [op |-> "table.lagged",
                   rows |-> add_lagged_target(appearances)]
    /\ UNCHANGED <<history, pipeVars, pyVars, trainVars>>

SeasonNext ==
    \/ RecordSeasonAppearance
    \/ Respond
    \/ EngineerApp
    \/ EngineerApi
    \/ AddLaggedTarget

SeasonSpec == Init /\ [][SeasonNext]_vars

-----------------------------------------------------------------------------
\* Histories with two appearances in one period (equal gameweek and date)

\* appearances a history with shared periods can hold
MaxTieLen == 4

\* the arrangements of the rows of s
Arrangements(s) ==
    LET n == Len(s)
    IN { [i \in 1..n |-> s[f[i]]] :
           f \in {g \in [1..n -> 1..n] : \A i, j \in 1..n : g[i] = g[j] => i = j} }

\* sort_values(column) with the default kind = 'quicksort': the rows come out
\* ordered by the key, rows with equal keys in whichever order the
\* partitioning leaves them; each such order is the stable order of some
\* arrangement of the rows
QuicksortByDate(s) == {SortByDate(a) : a \in Arrangements(s)}

QuicksortByGameweek(s) == {SortByGameweek(a) : a \in Arrangements(s)}

QuicksortByDateDesc(s) == {SortByDateDesc(a) : a \in Arrangements(s)}

\* the player makes an appearance in the next period or again in the last one
RecordTiedAppearance ==
    /\ resp = NoResp
    /\ Len(history) < MaxTieLen
    /\ \E kind \in AppearanceKinds, again \in BOOLEAN :
          LET n == IF history = <<>> THEN 1
                   ELSE history[Len(history)].gameweek + (IF again THEN 0 ELSE 1)
          IN history' = Append(history, MakeAppearance(kind, n))
    /\ UNCHANGED <<resp, pipeVars, pyVars, trainVars>>

\* engineer_features_from_appearances, df.sort_values('date') leaving equal
\* dates in one of the orders quicksort can
EngineerAppTies ==
    /\ resp = NoResp
    /\ \E appearances \in ListOrders(history) :
       \E df \in QuicksortByDate(appearances) :
          LET request == MakeRequest(appearances, MaxTieLen + 1)
          IN resp' = [op |-> "app.ties", appearances |-> appearances,
                      features |-> engineer_features_from_appearances(
                                       df, request.position, request.isHome,
                                       request.gameweek, request.price, Now)]
    /\ UNCHANGED <<history, pipeVars, pyVars, trainVars>>

\* engineer_features, appearances_df.sort_values('gameweek') leaving equal
\* gameweeks in one of the orders quicksort can
EngineerApiTies ==
    /\ resp = NoResp
    /\ apiSvc.loaded
    /\ \E appearances \in ListOrders(history) :
       \E appearances_df \in QuicksortByGameweek(appearances) :
          resp' = [op |-> "api.ties", appearances |-> appearances,
                   df |-> engineer_features(
                              MakeRequest(appearances_df, MaxTieLen + 1),
                              apiSvc.feature_config.start_features, Now)]
    /\ UNCHANGED <<history, pipeVars, pyVars, trainVars>>

\* build_features_for_prediction, extract_healthy_starts'
\* df.sort_values("date", ascending=False) leaving equal dates in one of the
\* orders quicksort can
BuildFeaturesPyTies ==
    /\ resp = NoResp
    /\ \E appearances \in ListOrders(history) :
       \E df \in QuicksortByDateDesc(appearances) :
          resp' = [op |-> "py.ties", appearances |-> appearances,
                   features |-> build_features_for_prediction(
                                    df, [position |-> "MID"],
                                    [given |-> FALSE], 8)]
    /\ UNCHANGED <<history, pipeVars, pyVars, trainVars>>

TieNext ==
    \/ RecordTiedAppearance
    \/ Respond
    \/ EngineerAppTies
    \/ EngineerApiTies
    \/ BuildFeaturesPyTies

TieSpec == Init /\ [][TieNext]_vars

-----------------------------------------------------------------------------
\* ml-service/scripts: the training table of one player and the fits on it

\* rows the raw table of the player can hold
MaxTableLen == 3

\* started but off before this minute: an early injury substitution
EarlySubBelow == 20

\* a lead of this many goals is a blowout
BlowoutLead == 3

\* what a player can do in a match of the raw table
TableKinds ==
    AppearanceKinds
        \cup {[started |-> TRUE, minutes |-> 10, redCard |-> FALSE, injExit |-> FALSE]}

\* final scores (home, away) of a match
Scorelines == {<<1, 1>>, <<4, 0>>}

\* a row of training_data_raw.csv
MakeRawRow(kind, score, was_home, n) ==
    [gameweek |-> n, season |-> Seasons[2], started |-> kind.started,
     minutes |-> kind.minutes, red_card |-> kind.redCard,
     team_h_score |-> score[1], team_a_score |-> score[2], was_home |-> was_home]

\* add_scoreline_features
add_scoreline_features(df) ==
    [i \in 1..Len(df) |->
        LET goal_diff == IF df[i].was_home
                         THEN df[i].team_h_score - df[i].team_a_score
                         ELSE df[i].team_a_score - df[i].team_h_score
        IN [goal_diff |-> goal_diff,
            is_blowout |-> Bool01(goal_diff >= BlowoutLead)]]

\* engineer_outlier_flags
engineer_outlier_flags(df) ==
    [i \in 1..Len(df) |->
        LET is_red_card == Bool01(df[i].red_card)
            is_early_injury_sub ==
                Bool01(df[i].started /\ df[i].minutes < EarlySubBelow
                           /\ df[i].minutes > 0)
        IN [is_red_card |-> is_red_card,
            is_early_injury_sub |-> is_early_injury_sub,
            is_outlier_event |-> Bool01(is_red_card = 1 \/ is_early_injury_sub = 1)]]

\* add_target_variables
add_target_variables(df) ==
    [i \in 1..Len(df) |->
        [target_started |-> Bool01(df[i].started),
         target_minutes_if_started |-> IF df[i].started THEN df[i].minutes ELSE NaN]]

\* main of feature_engineering.py on the raw rows of one player: the rows of
\* training_data_features.csv (the form, role-lock, lagged, scoreline, outlier
\* and target columns)
feature_engineering_main(raw) ==
    LET df == SortBySeasonGameweek(raw)
        form == add_recent_form_features(df)
        role == add_role_lock_feature(df)
        lagged == add_lagged_target(df)
        scoreline == add_scoreline_features(df)
        outlier == engineer_outlier_flags(df)
        targets == add_target_variables(df)
    IN <<>> \o [i \in 1..Len(df) |->
                   df[i] @@ form[i] @@ role[i] @@ lagged[i] @@ scoreline[i]
                       @@ outlier[i] @@ targets[i]]

\* the start_features of create_feature_list that the table rows carry
TableFeatures ==
    SelectSeq(BaseFeatures,
              LAMBDA name : name \in
                  {"avg_minutes_last_3", "start_rate_last_3", "consistency_last_3",
                   "trend_last_3", "avg_minutes_last_5", "start_rate_last_5",
                   "consistency_last_5", "trend_last_5", "avg_minutes_last_8",
                   "start_rate_last_8", "consistency_last_8", "trend_last_8",
                   "role_lock", "consecutive_85plus", "prev_gw_minutes",
                   "prev_gw_started", "goal_diff", "is_blowout", "is_red_card",
                   "is_early_injury_sub"})

\* df[config['start_features']] of one row
RowFeatures(row) == [k \in 1..Len(TableFeatures) |-> row[TableFeatures[k]]]

\* the player's next match is ingested into the raw table
RecordMatch ==
    /\ resp = NoResp
    /\ Len(history) < MaxTableLen
    /\ \E kind \in TableKinds, score \in Scorelines, was_home \in BOOLEAN :
          history' = Append(history,
                            MakeRawRow(kind, score, was_home, Len(history) + 1))
    /\ UNCHANGED <<resp, pipeVars, pyVars, trainVars>>

\* feature_engineering.py builds the feature table from the raw table
EngineerTable ==
    /\ resp = NoResp
    /\ \E raw \in ListOrders(history) :
          resp' = [op |-> "table.features",
                   rows |-> feature_engineering_main(raw)]
    /\ UNCHANGED <<history, pipeVars, pyVars, trainVars>>

TableNext ==
    \/ RecordMatch
    \/ Respond
    \/ EngineerTable

TableSpec == Init /\ [][TableNext]_vars

-----------------------------------------------------------------------------
\* The training scripts on a feature table: which rows each fit sees.
\* Rows are named by their gameweek.

\* folds of CalibratedClassifierCV(cv = 3)
CalibrationFolds == 3

\* test_size = 0.2, as 1 / TestShare
TestShare == 5

\* the raw rows of a sequence of match kinds, weekly, drawn 1-1
RawRowsOf(kinds) ==
    [i \in 1..Len(kinds) |-> MakeRawRow(kinds[i], <<1, 1>>, i % 2 = 1, i)]

\* training_data_raw.csv of a player: starts, benchings, a red card and an
\* early substitution; a longer season and a shorter one
TrainingCsvs ==
    LET full == [started |-> TRUE, minutes |-> 90, redCard |-> FALSE, injExit |-> FALSE]
        subbed == [started |-> TRUE, minutes |-> 60, redCard |-> FALSE, injExit |-> FALSE]
        bench == [started |-> FALSE, minutes |-> 0, redCard |-> FALSE, injExit |-> FALSE]
        sentOff == [started |-> TRUE, minutes |-> 23, redCard |-> TRUE, injExit |-> FALSE]
        early == [started |-> TRUE, minutes |-> 10, redCard |-> FALSE, injExit |-> FALSE]
    IN { RawRowsOf(<<full, bench, subbed, sentOff, full, bench, early,
                     full, bench, full>>),
         RawRowsOf(<<full, bench, full, sentOff, full, subbed>>) }

\* the gameweeks of the rows of a frame
RowIds(df) == {df[i].gameweek : i \in 1..Len(df)}

\* load_training_data of train_calibrated.py: the rows read from the csv
\* that are not outlier events
calibrated_load_training_data(table) ==
    SelectSeq(table, LAMBDA row : row.is_outlier_event = 0)

\* load_training_data of train_models.py: the rows read from the csv
models_load_training_data(table) == table

\* the rows of every sample, for a Stage B frame that is not filtered
AllSamples(df) == df

\* df[df[config['targets']['start']] == 1]
StartedSamples(df) == SelectSeq(df, LAMBDA row : row.target_started = 1)

\* train_test_split(..., test_size = 0.2): the splits it can return; none
\* when a side would be empty (ValueError). The stratification of the start
\* split only narrows the choice of the test rows.
train_test_split(ids) ==
    LET n_test == (Cardinality(ids) + TestShare - 1) \div TestShare
    IN IF Cardinality(ids) - n_test < 1 THEN {}
       ELSE {[train |-> ids \ test, test |-> test] :
                test \in {t \in SUBSET ids : Cardinality(t) = n_test}}

\* the cv folds of the training rows: a partition into CalibrationFolds parts
Folds(ids) ==
    LET Pos(g) == Cardinality({h \in ids : h < g})
    IN {{g \in ids : Pos(g) % CalibrationFolds = k} : k \in 0..(CalibrationFolds - 1)}

\* CalibratedClassifierCV(base, method = 'sigmoid', cv = 3).fit(X, y): one
\* (estimator, calibrator) pair per fold, the estimator fitted on the other
\* folds and the calibrator on the fold; ValueError when a class has fewer
\* than 3 rows
CalibratedClassifierCV_fit(X_train, table) ==
    LET Class(c) == {g \in X_train :
                        \E i \in 1..Len(table) :
                            table[i].gameweek = g /\ table[i].target_started = c}
        classes == {c \in {0, 1} : Class(c) # {}}
    IN IF \E c \in classes : Cardinality(Class(c)) < CalibrationFolds
       THEN [raised |-> "ValueError", pairs |-> {}]
       ELSE [raised |-> None,
             pairs |-> {[estimator |-> X_train \ fold, calibrator |-> fold] :
                           fold \in Folds(X_train)}]

\* train_calibrated_models: the rows each estimator and calibrator is fitted on
train_calibrated_models(splits, table) ==
    LET calibrated_start == CalibratedClassifierCV_fit(splits.start.train, table)
    IN IF calibrated_start.raised # None
       THEN [raised |-> calibrated_start.raised, calibrated_start |-> {},
             base_minutes |-> {}, iso_reg |-> {}]
       ELSE [raised |-> None, calibrated_start |-> calibrated_start.pairs,
             base_minutes |-> splits.minutes.train,
             iso_reg |-> splits.minutes.train]

\* training_data_raw.csv is written by the ingestion step
LoadRawData ==
    /\ resp = NoResp
    /\ history = <<>>
    /\ history' \in TrainingCsvs
    /\ UNCHANGED <<resp, pipeVars, pyVars, trainVars>>

\* main of train_calibrated.py on the feature table of the csv
TrainCalibratedFit ==
    /\ resp = NoResp
    /\ history # <<>>
    /\ runs < MaxRuns
    /\ configFile.exists
    /\ LET start_features == configFile.start_features \o DepthFeatures
           minutes_features == configFile.minutes_features \o DepthFeatures
           columns == csvCols \cup Range(DepthFeatures)
           table == feature_engineering_main(history)
           df == calibrated_load_training_data(table)
           df_started == StartedSamples(df)
       IN /\ Range(start_features) \subseteq columns
          /\ Range(minutes_features) \subseteq columns
          /\ \E start \in train_test_split(RowIds(df)),
                minutes \in train_test_split(RowIds(df_started)) :
                LET splits == [start |-> start, minutes |-> minutes]
                    models == train_calibrated_models(splits, table)
                IN /\ resp' = [op |-> "train.calibrated", raised |-> models.raised,
                               df |-> RowIds(df), splits |-> splits,
                               models |-> models]
                   /\ calibratedPkl' =
                          IF models.raised = None
                          THEN FittedOn(start_features, minutes_features)
                          ELSE calibratedPkl
    /\ runs' = runs + 1
    /\ UNCHANGED <<history, configFile, csvCols, modelsPkl, metadataFile,
                   apiSvc, appSvc, pyVars, trainVars>>

\* main of train_models.py up to prepare_train_test_split, on the feature
\* table of the csv, and its fits and save_models
TrainModelsFit ==
    /\ resp = NoResp
    /\ history # <<>>
    /\ runs < MaxRuns
    /\ configFile.exists
    /\ Range(configFile.start_features) \subseteq csvCols
    /\ Range(configFile.minutes_features) \subseteq csvCols
    /\ LET df == models_load_training_data(feature_engineering_main(history))
           df_started == StartedSamples(df)
       IN \E start \in train_test_split(RowIds(df)),
             minutes \in train_test_split(RowIds(df_started)) :
             resp' = [op |-> "train.models", raised |-> None, df |-> RowIds(df),
                      splits |-> [start |-> start, minutes |-> minutes]]
    /\ runs' = runs + 1
    /\ modelsPkl' = FittedOn(configFile.start_features, configFile.minutes_features)
    /\ metadataFile' = configFile
    /\ UNCHANGED <<history, configFile, csvCols, calibratedPkl,
                   apiSvc, appSvc, pyVars, trainVars>>

\* prepare_training_data of features.py on a fetched frame of appearances
PrepareTrainingData ==
    /\ resp = NoResp
    /\ \E f \in DOMAIN FetchedFrames :
          LET data == PreparedData[f]
          IN resp' = [op |-> "py.prepare", frame |-> f,
                      stage_a_data |-> RowIds(data.stage_a_data),
                      stage_b_data |-> RowIds(data.stage_b_data)]
    /\ UNCHANGED <<history, pipeVars, pyVars, trainVars>>

FitNext ==
    \/ LoadRawData
    \/ Respond
    \/ TrainCalibratedFit
    \/ TrainModelsFit
    \/ PrepareTrainingData

FitSpec == Init /\ [][FitNext]_vars

-----------------------------------------------------------------------------
\* The derivers on players of every position and on whole seasons

\* positions a caller can send: the four of the game and one that is none
Positions == {"GK", "DEF", "MID", "FWD", "AM"}

\* player_info of a call: a dict with the position, or one without it (the
\* {} of player_info_map.get(player_id, {}))
PlayerInfos == {[position |-> p] : p \in Positions} \cup {[team |-> "Arsenal"]}

\* build_features_for_prediction with the dict lookups player_info["position"]
\* (next to the team prior and at the position encoding): KeyError when the
\* key is missing where one of them is reached
build_features_of_player(player_appearances, player_info, team_appearances, recency_window) ==
    LET healthy_starts ==
            extract_healthy_starts(player_appearances, TRUE, TRUE, recency_window)
        reads_position == Len(healthy_starts) > 0 \/ team_appearances.given
    IN IF reads_position /\ "position" \notin DOMAIN player_info
       THEN [raised |-> "KeyError"]
       ELSE [raised |-> None,
             features |-> build_features_for_prediction(
                              player_appearances, player_info,
                              team_appearances, recency_window)]

\* engineer_features_from_appearances for a player of some position
EngineerAppPosition ==
    /\ resp = NoResp
    /\ \E position \in Positions, appearances \in SampleHistories :
          resp' = [op |-> "app.position", position |-> position,
                   features |-> engineer_features_from_appearances(
                                    appearances, position, TRUE, MaxLen + 1, 55, Now)]
    /\ UNCHANGED <<history, pipeVars, pyVars, trainVars>>

\* build_features_for_prediction for a player of some position
BuildFeaturesPyPosition ==
    /\ resp = NoResp
    /\ \E player_info \in PlayerInfos, appearances \in SampleHistories,
          team_appearances \in TeamFrames :
          resp' = [op |-> "py.position", player_info |-> player_info,
                   built |-> build_features_of_player(
                                 appearances, player_info, team_appearances, 8)]
    /\ UNCHANGED <<history, pipeVars, pyVars, trainVars>>

\* build_features_for_prediction on the appearances of a season so far
BuildFeaturesPySeason ==
    /\ resp = NoResp
    /\ \E f \in DOMAIN FetchedFrames :
       \E n \in 0..Len(FetchedFrames[f]) :
          LET player_appearances == SubSeq(FetchedFrames[f], 1, n)
          IN resp' = [op |-> "py.season", player_appearances |-> player_appearances,
                      recency_window |-> 8,
                      features |-> build_features_for_prediction(
                                       player_appearances, [position |-> "MID"],
                                       [given |-> FALSE], 8)]
    /\ UNCHANGED <<history, pipeVars, pyVars, trainVars>>

PlayerNext ==
    \/ Respond
    \/ EngineerAppPosition
    \/ BuildFeaturesPyPosition
    \/ BuildFeaturesPySeason

PlayerSpec == Init /\ [][PlayerNext]_vars

----------------------------------------------------------------------------
\* Properties of the derivers and of the ml-service endpoints (Spec)

\* the appearances strictly before the target period, oldest first
PrePeriod(h, gameweek) == SelectSeq(h, LAMBDA r : r.gameweek < gameweek)

\* the 3 most recent of pre all started with minutes >= 85
TrailingThreeNailed(pre) ==
    /\ Len(pre) >= RoleLockRun
    /\ \A i \in (Len(pre) - RoleLockRun + 1)..Len(pre) :
          pre[i].started /\ pre[i].minutes >= RoleLockMinutes

\* value of a named column of the one-row frame engineer_features returns
DfValue(df, name) ==
    LET i == CHOOSE i \in 1..Len(df.columns) : df.columns[i] = name
    IN df.values[i]

\* role_lock of a python-service feature dict (absent on the prior path)
PyRoleLock(features) == features.use_prior = 0 /\ features.role_lock = 1

\* C1: for every history and target period, the role_lock flag of each
\* feature deriver is true if and only if the 3 most recent appearances
\* before the target period all started with at least 85 minutes; a benched
\* or shorter appearance among those 3 makes it false.
C1_RoleLockIffTrailingThree ==
    /\ resp.op = "app.engineer" =>
          (resp.features.role_lock = 1
              <=> TrailingThreeNailed(PrePeriod(history, resp.gameweek)))
    /\ (resp.op = "api.engineer" /\ resp.df.raised = None) =>
          (DfValue(resp.df, "role_lock") = 1
              <=> TrailingThreeNailed(PrePeriod(history, resp.gameweek)))
    /\ resp.op = "py.build" =>
          (PyRoleLock(resp.features) <=> TrailingThreeNailed(history))

\* five 90-minute starts, then a red-card exit after 23 minutes
ScenarioC ==
    [n \in 1..6 |->
        MakeAppearance(
            IF n <= 5
            THEN [started |-> TRUE, minutes |-> 90, redCard |-> FALSE, injExit |-> FALSE]
            ELSE [started |-> TRUE, minutes |-> 23, redCard |-> TRUE, injExit |-> FALSE],
            n)]

\* C2: for five 90-minute starts followed by a 23-minute red-card exit, the
\* derived role_lock is still true and the is_red_card flag of the most
\* recent record is true in the same feature vector.
C2_ScenarioCKeepsRoleLock ==
    history = ScenarioC =>
        /\ (resp.op = "app.engineer" /\ resp.gameweek = MaxLen + 1) =>
              resp.features.role_lock = 1 /\ resp.features.is_red_card = 1
        /\ (resp.op = "api.engineer" /\ resp.gameweek = MaxLen + 1) =>
              /\ resp.df.raised = None
              /\ DfValue(resp.df, "role_lock") = 1
              /\ DfValue(resp.df, "is_red_card") = 1
        /\ resp.op = "py.build" => PyRoleLock(resp.features)

\* C3: every history-derived feature depends only on the appearances whose
\* gameweek is strictly less than the target gameweek of the request: the
\* vector equals the one derived from the pre-period appearances alone.
C3_NoLookAhead ==
    /\ resp.op = "app.engineer" =>
          resp.features =
              engineer_features_from_appearances(
                  PrePeriod(history, resp.gameweek), "MID", TRUE,
                  resp.gameweek, 55, Now)
    /\ resp.op = "api.engineer" =>
          resp.df =
              engineer_features(
                  MakeRequest(PrePeriod(history, resp.gameweek), resp.gameweek),
                  apiSvc.feature_config.start_features, Now)

\* C4: under one configured schema, every call of a feature deriver, for
\* every history (the empty one and one without healthy starts included),
\* produces the same keys in the same order, with every schema name present.
C4_SchemaDeterminism ==
    /\ resp.op = "app.engineer" => resp.keys = AppFeatureKeys
    /\ (resp.op = "app.predict" /\ resp.status = 200) =>
          resp.columns = appSvc.metadata[1].start_features
    /\ resp.op = "api.engineer" =>
          /\ resp.df.raised = None
          /\ resp.df.columns = apiSvc.feature_config.start_features
    /\ resp.op = "py.build" =>
          /\ resp.keys = PyDataKeys
          /\ Range(StageAFeatureCols) \subseteq Range(resp.keys)

\* C10: the sparse_data flag of a prediction result is true if and only if
\* the usable history, the appearances strictly before the target period,
\* has fewer than 5 entries.
C10_SparseIffUsableHistoryShort ==
    (resp.op \in {"app.predict", "api.predict"} /\ resp.status = 200) =>
        (resp.flags.sparse_data
            <=> Len(PrePeriod(history, resp.gameweek)) < SparseBelow)

----------------------------------------------------------------------------
\* Properties of the prediction paths of the three services (PySpec)

\* C7: when the configured schema names a feature the deriver cannot compute
\* from the inputs, the slot is filled with 0, the vector is complete and
\* the prediction proceeds without raising, for every schema and input.
C7_AbsentFeatureZeroFilled ==
    /\ (resp.op = "app.predict" /\ appSvc.start_model # <<>>) =>
          resp.status = 200 /\ resp.columns = appSvc.metadata[1].start_features
    /\ (resp.op = "api.predict" /\ history # <<>>) =>
          resp.status = 200 /\ resp.columns = apiSvc.feature_config.start_features
    /\ (resp.op = "py.stage_a" /\ stage_a.is_trained) => resp.raised = None
    /\ (resp.op = "py.stage_b" /\ stage_b.is_trained) => resp.raised = None

\* C8: for any stage outputs the conditional minutes estimate is clipped to
\* [0, 90] and the combined expected minutes, P(start) x E[minutes | start],
\* is at least 0 and at most 90.
C8_CombinedMinutesWithin0And90 ==
    /\ (resp.op \in {"app.predict", "api.predict"} /\ resp.status = 200) =>
          /\ resp.xMinsStart \in 0..MaxMinutes
          /\ resp.xMins \in 0..(100 * MaxMinutes)
    /\ (resp.op = "py.stage_b" /\ resp.raised = None) =>
          resp.expected_minutes[1] \in 0..MaxMinutes
    /\ (resp.op = "py.predict" /\ resp.raised = None) =>
          /\ resp.xmins_start \in 0..(10 * MaxMinutes)
          /\ resp.effective_xmins \in 0..(10 * MaxMinutes)

\* C9: in every prediction result the uncertainty lower bound is at least 0
\* and the uncertainty upper bound is at most 90.
C9_UncertaintyBandWithin0And90 ==
    /\ (resp.op \in {"app.predict", "api.predict"} /\ resp.status = 200) =>
          /\ \A i \in 1..Len(resp.uncertaintyLo) : resp.uncertaintyLo[i] >= 0
          /\ \A i \in 1..Len(resp.uncertaintyHi) :
                resp.uncertaintyHi[i] <= 100 * MaxMinutes
    /\ (resp.op = "py.predict" /\ resp.raised = None) =>
          /\ resp.uncertainty_lo >= 0
          /\ resp.uncertainty_hi <= 10 * MaxMinutes

----------------------------------------------------------------------------
\* Properties of the pipeline and of the loaded services (PipelineSpec)

\* C5: whenever the vector presented at inference differs in names or order
\* from the schema the loaded model was trained on, the prediction path
\* raises before calling the model's predict: the model is only ever called
\* with an aligned vector, and a misaligned one never yields a prediction.
C5_MisalignedVectorNeverReachesModel ==
    /\ (resp.op = "api.predict" /\ resp.called) =>
          /\ resp.columns = apiSvc.start_model
          /\ resp.columns = apiSvc.minutes_model
    /\ (resp.op = "app.predict" /\ resp.called) =>
          /\ resp.columns = appSvc.start_model[1]
          /\ resp.columns = appSvc.minutes_model[1]

\* C6: after any sequence of pipeline steps followed by a service start,
\* the feature-name list the service builds its vectors from equals, in
\* names and order, the list its loaded models were fitted on.
C6_LoadedSchemaIsFittedSchema ==
    /\ apiSvc.loaded =>
          /\ apiSvc.feature_config.start_features = apiSvc.start_model
          /\ apiSvc.feature_config.minutes_features = apiSvc.minutes_model
    /\ appSvc.start_model # <<>> =>
          /\ appSvc.metadata[1].start_features = appSvc.start_model[1]
          /\ appSvc.metadata[1].minutes_features = appSvc.minutes_model[1]

\* C11: a prediction request for a player with zero appearances succeeds,
\* takes the prior path and has sparse_data true, and the estimate rests on
\* the position-default prior alone (MID: start probability 0.6, average
\* minutes 75).
C11_ZeroHistoryUsesPositionPrior ==
    history = <<>> =>
        /\ (resp.op = "app.predict" /\ appSvc # AppModelsNone) =>
              resp.status = 200 /\ resp.flags.sparse_data
        /\ resp.op = "api.predict" =>
              resp.status = 200 /\ resp.flags.sparse_data
        /\ resp.op = "py.build" =>
              /\ resp.features.use_prior = 1
              /\ resp.features.prior_start_prob = DefaultPrior("MID").start_prob
              /\ resp.features.prior_avg_minutes = DefaultPrior("MID").avg_minutes

\* C12: train called on either stage with fewer than 50 samples raises the
\* insufficient-data error, and the stage models (fitted model, scaler,
\* feature_names, is_trained) and their files are afterwards what they were
\* before the call.
C12_ShortTrainingRaisesAndKeepsModels ==
    [][(resp'.op \in {"py.stage_a.train", "py.stage_b.train"}
            /\ resp'.n < MinTrainingSamples)
        => (resp'.raised = "ValueError" /\ UNCHANGED pyVars)]_vars

\* stage A, trained earlier, has refused a frame of 40 samples
C12_Witness ==
    /\ resp.op = "py.stage_a.train"
    /\ resp.n = 40
    /\ resp.raised = "ValueError"
    /\ stage_a.is_trained
    /\ stage_a.model.run = 1

C14_NotTrainedFailsThatRequestOnly ==
    [][/\ resp'.op = "py.predict" =>
             IF stage_a.is_trained /\ stage_b.is_trained
             THEN resp'.raised = None
             ELSE resp'.raised = "RuntimeError" /\ UNCHANGED <<pyVars, trainVars>>
       /\ resp'.op = "app.predict" =>
             IF appSvc = AppModelsNone
             THEN /\ resp'.status = 500
                  /\ resp'.detail = "HTTPException503"
                  /\ UNCHANGED appSvc
             ELSE resp'.status = 200]_vars

\* C14 as stated: a request made after training has succeeded (both stages
\* trained in the python-service process; the model and metadata files of
\* app.py written) succeeds.
C14_RequestAfterTrainingSucceeds ==
    /\ (resp.op = "py.predict" /\ stage_a.is_trained /\ stage_b.is_trained) =>
          resp.raised = None
    /\ (resp.op = "app.predict" /\ modelsPkl.exists /\ metadataFile.exists) =>
          resp.status = 200

\* the process started without model files, both stages were trained in it,
\* and a prediction has succeeded
C14_Witness ==
    /\ pyModelsDir = NoPyModels
    /\ stage_a.model.run = 1
    /\ stage_b.model.run = 2
    /\ resp.op = "py.predict"
    /\ resp.raised = None

\* C15: no prediction call changes the shared model state: after predict,
\* predict_single or a batch with any feature dict, the fitted parameters,
\* the scaler and feature_names of both stage models are what they were
\* before the call.
C15_PredictionsLeaveModelsUnchanged ==
    [][resp'.op \in {"py.predict", "py.stage_a", "py.stage_b", "py.batch"}
          => UNCHANGED <<stage_a, stage_b>>]_vars

\* C16: a batch prediction never fails because an individual prediction
\* failed: it returns, and its list holds exactly the requests whose
\* prediction succeeded, in request order, the failed ones left out.
C16_BatchSkipsFailedPredictions ==
    resp.op \in {"py.batch", "app.batch"} =>
        /\ resp.raised = None
        /\ resp.predictions = IF resp.failed THEN <<>> ELSE resp.requests

\* a python-service batch of MaxBatch requests, each of which failed
C16_Witness ==
    /\ resp.op = "py.batch"
    /\ Len(resp.requests) = MaxBatch
    /\ resp.failed
    /\ resp.raised = None
    /\ resp.predictions = <<>>

\* C17: at most one training job is in progress at any time: while one
\* run is between its start and its completion, no other run is fitting or
\* saving models.
C17_AtMostOneTrainingInProgress ==
    \A t, u \in TaskIds :
        (t # u /\ tasks[t].pc \in {"fetching", "fit_a", "fit_b", "save"})
            => tasks[u].pc \notin {"fit_a", "fit_b", "save"}

\* a second /train request has arrived while the first run is fitting
C17_Witness ==
    /\ tasks[1].pc = "fit_b"
    /\ tasks[2].pc = "queued"

C20_Tier(m) ==
    IF m >= 85 THEN 85 ELSE IF m >= 80 THEN 60 ELSE IF m >= 70 THEN 35 ELSE 10

\* C20: the full-match probability returned is P(start) scaled by the tier
\* of the conditional minutes estimate m: 0.85 for m >= 85, 0.60 for
\* 80 <= m < 85, 0.35 for 70 <= m < 80, 0.10 for m < 70.
C20_FullMatchProbabilityTiers ==
    (resp.op \in {"app.predict", "api.predict"} /\ resp.status = 200) =>
        resp.p90 = C20_Tier(resp.xMinsStart) * resp.startProb

\* the consistency and trend columns of the three windows
C19_Columns ==
    {"consistency_last_3", "trend_last_3", "consistency_last_5", "trend_last_5",
     "consistency_last_8", "trend_last_8"}

\* C19: for every window w in {3, 5, 8}, when fewer than 2 entries are
\* available, consistency_last_w and trend_last_w are exactly 0, never NaN
\* or undefined, in the vector of each deriver at inference and in every
\* row of the training feature table.
C19_ShortWindowFormIsZero ==
    /\ (resp.op = "app.engineer" /\ Len(history) < 2) =>
          \A c \in C19_Columns : resp.features[c] = 0
    /\ (resp.op = "api.engineer" /\ Len(history) < 2) =>
          /\ resp.df.raised = None
          /\ \A c \in C19_Columns : DfValue(resp.df, c) = 0
    /\ resp.op = "table.form" =>
          \A i \in 1..Len(resp.rows) :
              resp.rows[i].prior < 2 =>
                  \A c \in C19_Columns : resp.rows[i][c] = 0

\* the length of the trailing run of 85+ starts of a history in period order
C21_RunLength(h) ==
    LET n == Len(h)
        Run(k) == \A i \in (n - k + 1)..n : h[i].started /\ h[i].minutes >= 85
    IN CHOOSE k \in 0..n : Run(k) /\ (k < n => ~Run(k + 1))

\* C21: for every history, consecutive_85plus is the exact length of the
\* trailing run of appearances started with at least 85 minutes, runs
\* longer than 5 included, in each deriver at inference and in the row the
\* training pipeline builds on the same history.
C21_ConsecutiveIsTrailingRun ==
    /\ resp.op = "app.engineer" =>
          resp.features.consecutive_85plus = C21_RunLength(history)
    /\ (resp.op = "api.engineer" /\ resp.df.raised = None) =>
          DfValue(resp.df, "consecutive_85plus") = C21_RunLength(history)
    /\ resp.op = "table.role_lock" =>
          \A i \in 1..Len(resp.rows) :
              resp.rows[i].consecutive_85plus
                  = C21_RunLength(SubSeq(history, 1, i - 1))

\* the appearance of h with the latest (season, gameweek)
C22_MostRecent(h) ==
    LET Order(r) == <<SeasonRank(r.season), r.gameweek>>
        Before(a, b) == \/ Order(a)[1] < Order(b)[1]
                        \/ Order(a)[1] = Order(b)[1] /\ Order(a)[2] <= Order(b)[2]
    IN h[CHOOSE i \in 1..Len(h) : \A j \in 1..Len(h) : Before(h[j], h[i])]

\* C22: prev_gw_minutes and prev_gw_started are the minutes and the started
\* flag of the chronologically most recent appearance before the target
\* period, by season and then gameweek or date, for histories that span two
\* seasons too; they are 0 and false when there is none.
C22_PrevIsMostRecentAppearance ==
    /\ resp.op = "app.engineer" =>
          IF history = <<>>
          THEN resp.features.prev_gw_minutes = 0
               /\ resp.features.prev_gw_started = 0
          ELSE resp.features.prev_gw_minutes = C22_MostRecent(history).minutes
               /\ resp.features.prev_gw_started
                      = Bool01(C22_MostRecent(history).started)
    /\ (resp.op = "api.engineer" /\ resp.df.raised = None) =>
          /\ DfValue(resp.df, "prev_gw_minutes") = C22_MostRecent(history).minutes
          /\ DfValue(resp.df, "prev_gw_started")
                 = Bool01(C22_MostRecent(history).started)
    /\ resp.op = "table.lagged" =>
          \A i \in 1..Len(resp.rows) :
              IF i = 1
              THEN resp.rows[i].prev_gw_minutes = 0
                   /\ resp.rows[i].prev_gw_started = 0
              ELSE LET prev == C22_MostRecent(SubSeq(history, 1, i - 1))
                   IN resp.rows[i].prev_gw_minutes = prev.minutes
                      /\ resp.rows[i].prev_gw_started = Bool01(prev.started)

\* C23: when two appearances of a history share a period (the same gameweek
\* or date), each deriver returns a vector without failing, and the vector
\* is the one of the insertion order, whichever way the sort treats the tie.
C23_VectorIndependentOfTieOrder ==
    /\ resp.op = "app.ties" =>
          resp.features = engineer_features_from_appearances(
                              resp.appearances, "MID", TRUE, MaxTieLen + 1, 55, Now)
    /\ resp.op = "api.ties" =>
          /\ resp.appearances # <<>> => resp.df.raised = None
          /\ resp.df = engineer_features(
                           MakeRequest(resp.appearances, MaxTieLen + 1),
                           apiSvc.feature_config.start_features, Now)
    /\ resp.op = "py.ties" =>
          resp.features = build_features_for_prediction(
                              resp.appearances, [position |-> "MID"],
                              [given |-> FALSE], 8)

\* the raw table h with the outcome of its last match replaced
C24_WithOutcome(h, kind, score) ==
    [h EXCEPT ![Len(h)] =
        MakeRawRow(kind, score, h[Len(h)].was_home, h[Len(h)].gameweek)]

\* C24: every configured feature of the training row of a period P is
\* computed without look-ahead: it depends on the rows before P and on
\* pre-match information only, so the row's feature vector is the same
\* whatever the outcome of match P (minutes, score, red card) is.
C24_FeaturesWithoutLookAhead ==
    (resp.op = "table.features" /\ history # <<>>) =>
        \A kind \in TableKinds, score \in Scorelines :
            RowFeatures(feature_engineering_main(
                            C24_WithOutcome(history, kind, score))[Len(history)])
                = RowFeatures(resp.rows[Len(history)])

\* the row of gameweek g of a frame started
C25_Started(df, g) == \E i \in 1..Len(df) : df[i].gameweek = g /\ df[i].started

\* C25: every sample of the Stage B (minutes given start) training data is a
\* row where the player started, in the splits of train_calibrated.py and
\* train_models.py and in stage_b_data of prepare_training_data.
C25_StageBSamplesStarted ==
    /\ resp.op \in {"train.calibrated", "train.models"} =>
          \A g \in resp.splits.minutes.train \cup resp.splits.minutes.test :
              C25_Started(history, g)
    /\ resp.op = "train.calibrated" =>
          \A g \in resp.models.base_minutes : C25_Started(history, g)
    /\ resp.op = "py.prepare" =>
          \A g \in resp.stage_b_data : C25_Started(FetchedFrames[resp.frame], g)

\* the minutes model was fitted while a benched row is in the Stage A fit
C25_Witness ==
    /\ resp.op = "train.calibrated"
    /\ resp.raised = None
    /\ resp.models.base_minutes # {}
    /\ \E g \in resp.splits.start.train : ~C25_Started(history, g)

\* the rows of a raw table that are outlier events: a red card, or a start
\* ended before the 20th minute
C26_Outliers(raw) ==
    {raw[i].gameweek : i \in {j \in 1..Len(raw) :
        raw[j].red_card \/ (raw[j].started /\ raw[j].minutes < 20)}}

\* C26: an outlier event (a red card, or a start with fewer than 20 minutes)
\* is flagged in the feature table, and its row stays in the data the
\* training step fits on.
C26_OutliersFlaggedAndKept ==
    resp.op \in {"train.calibrated", "train.models"} =>
        LET table == feature_engineering_main(history)
        IN /\ \A i \in 1..Len(table) :
                 table[i].is_outlier_event = 1
                     <=> table[i].gameweek \in C26_Outliers(history)
           /\ C26_Outliers(history) \subseteq resp.df

\* C27: each calibrator is fitted on samples disjoint from the samples its
\* stage model was fitted on: the raw predictions the calibrator learns from
\* are held-out or out-of-fold predictions.
C27_CalibratorFitDisjointFromModelFit ==
    (resp.op = "train.calibrated" /\ resp.raised = None) =>
        /\ \A pair \in resp.models.calibrated_start :
              pair.estimator \cap pair.calibrator = {}
        /\ resp.models.base_minutes \cap resp.models.iso_reg = {}

\* the four positions of the game
C28_Known == {"GK", "DEF", "MID", "FWD"}

\* the position indicators of an ml-service vector that are set
C28_Set(features) ==
    {p \in C28_Known :
        features[CASE p = "GK" -> "pos_GK" [] p = "DEF" -> "pos_DEF"
                   [] p = "MID" -> "pos_MID" [] p = "FWD" -> "pos_FWD"] = 1}

\* C28: in every deriver the position becomes indicators over {GK, DEF, MID,
\* FWD}: exactly the one of a known position is set, and an unknown or
\* missing position sets none and raises no error (so it is not encoded as
\* one of the four).
C28_PositionOneHotOrAllZero ==
    /\ resp.op = "app.position" =>
          C28_Set(resp.features)
              = IF resp.position \in C28_Known THEN {resp.position} ELSE {}
    /\ resp.op = "py.position" =>
          /\ resp.built.raised = None
          /\ resp.built.features.use_prior = 0 =>
                \A p \in C28_Known :
                    resp.built.features.position_encoded = PositionEncoded(p)
                        => "position" \in DOMAIN resp.player_info
                           /\ resp.player_info.position = p

\* the most recent w appearances of a history kept in date order
C30_Recent(h, w) == SubSeq(h, Max2(1, Len(h) - w + 1), Len(h))

\* C30: when the history holds a healthy start, start_frequency of
\* build_features_for_prediction is the fraction of the most recent
\* recency_window appearances that are healthy starts (started, no injury
\* exit, no red card), a value in [0, 1].
C30_StartFrequencyIsHealthyFraction ==
    (resp.op = "py.season" /\ resp.features.use_prior = 0) =>
        LET recent == C30_Recent(resp.player_appearances, resp.recency_window)
            healthy == SelectSeq(recent, LAMBDA r :
                           r.started /\ ~r.injExit /\ ~r.redCard)
        IN /\ resp.features.start_frequency * Len(recent) = 840 * Len(healthy)
           /\ resp.features.start_frequency \in 0..840

\* start_features and minutes_features are one list in one order: in the
\* config file, in the config api.py has loaded, and in the columns the two
\* stage models were fitted on
C29_SameList ==
    /\ configFile.exists =>
          configFile.start_features = configFile.minutes_features
    /\ apiSvc.loaded =>
          /\ apiSvc.feature_config.start_features
                 = apiSvc.feature_config.minutes_features
          /\ apiSvc.start_model = apiSvc.minutes_model
    /\ calibratedPkl.exists =>
          calibratedPkl.start_fitted = calibratedPkl.minutes_fitted

\* C29: the minutes model is always given its inputs in the column order of
\* the list it was fitted on: after any sequence of the steps that write the
\* feature config, start_features and minutes_features are the same list in
\* the same order, and the one vector api.py builds from start_features is
\* in the order of the minutes model's columns.
C29_MinutesModelGivenItsFittedOrder ==
    /\ C29_SameList
    /\ apiSvc.loaded =>
          apiSvc.feature_config.start_features = apiSvc.minutes_model

====
